---- MODULE Spec2Model ----
(***************************************************************************)
(* Model of the natural-language command pipeline of the todo chatbot:     *)
(* intent classification, input validation, the confirmation service, the  *)
(* conversation-session store and the chat workflow built on them.         *)
(* Text is a sequence of one-character strings, so substring and           *)
(* word-boundary matches are computed as the Python code computes them.    *)
(***************************************************************************)
EXTENDS Integers, Sequences, FiniteSets, TLC

VARIABLES
    text,                   \* classifier input under test
    classification,         \* result of the classifier on text, or NoResult
    cohere,                 \* what the Cohere classify request of the last call did
    statements,             \* result of extract_multiple_intents(text), once called
    outcomes,               \* per statement of a command: what processing it brought
    aggregate,              \* the MultiIntentResult of the command, once processed
    tasks,                  \* rows of the tasks table: id -> [user_id, title, completed]
    task_ids,               \* number of task ids uuid4 has produced
    extracted,              \* what _rule_based_extract(text) wrote and returned, once called
    processing,             \* what _process_sequentially or _process_hierarchically did, once called
    clarification,          \* what needs_clarification was given and returned, once called
    limiter,                \* RateLimiterService.user_limits, the clock and the calls of check_user_rate_limit under way
    task_call,              \* the last task_service call and what it returned
    now,                    \* datetime.now(), in minutes
    ticks,                  \* number of clock advances so far
    requests,               \* the ConfirmationRequest objects ever created, by id
    pending_confirmations,  \* keys of ConfirmationService.pending_confirmations
    processed,              \* per id: successful process_confirmed_action calls
    last,                   \* the last confirmation-service call and its result
    conversations,          \* ConversationState.conversations: id -> session record
    issued,                 \* number of conversation ids uuid4 has produced
    reply,                  \* the last workflow or store call and what it returned
    executed,               \* the messages the last call handed to execute_command
    threads                 \* per request thread: its position in process_chat_message

\* process_multi_intent_command not called yet
NotProcessed == [done |-> FALSE]

\* extract_multiple_intents not called yet
NotDecomposed == [done |-> FALSE, parts |-> <<>>]

\* no classification computed yet (a record of the result's shape)
NoResult == [intent |-> "NONE", confidence |-> [num |-> 0, den |-> 0]]

(***************************************************************************)
(* Bounds of the model.                                                    *)
(***************************************************************************)
MaxWords == 2
MaxTicks == 3
MaxConfirmations == 2

(***************************************************************************)
(* Program constants.                                                      *)
(***************************************************************************)
EXPIRES_IN_MINUTES == 5
SESSION_HOURS == 24
SessionTTL == SESSION_HOURS * 60

\* between two calls on the confirmation service a minute or a whole TTL passes
TimeSteps == {1, EXPIRES_IN_MINUTES}

(***************************************************************************)
(* Text primitives (Python str operations).                                *)
(***************************************************************************)
UpperChars == <<"A","B","C","D","E","F","G","H","I","J","K","L","M","N","O","P","Q","R","S","T","U","V","W","X","Y","Z">>

LowerChars == <<"a","b","c","d","e","f","g","h","i","j","k","l","m","n","o","p","q","r","s","t","u","v","w","x","y","z">>

Whitespace == {" ", "\t", "\n"}

\* str.lower() on one character
lower_char(c) ==
    IF \E i \in 1..Len(UpperChars) : UpperChars[i] = c
    THEN LowerChars[CHOOSE i \in 1..Len(UpperChars) : UpperChars[i] = c]
    ELSE c

\* str.lower()
lower(t) == [i \in 1..Len(t) |-> lower_char(t[i])]

\* str.strip()
RECURSIVE lstrip(_)
lstrip(t) == IF t # <<>> /\ Head(t) \in Whitespace THEN lstrip(Tail(t)) ELSE t

RECURSIVE rstrip(_)
rstrip(t) ==
    IF t # <<>> /\ t[Len(t)] \in Whitespace THEN rstrip(SubSeq(t, 1, Len(t) - 1)) ELSE t

strip(t) == rstrip(lstrip(t))

\* the element of a one-element set; The({e : x \in {d}}) is e with x standing
\* for the value of d
The(S) == CHOOSE x \in S : TRUE

\* the largest and the smallest element of a set of positions, 0 if it is empty
LargestOr0(S) == IF S = {} THEN 0 ELSE CHOOSE g \in S : \A h \in S : h <= g

SmallestOr0(S) == IF S = {} THEN 0 ELSE CHOOSE g \in S : \A h \in S : g <= h

\* p occurs in t starting at index i
MatchesAt(t, p, i) ==
    /\ i >= 1
    /\ i + Len(p) - 1 <= Len(t)
    /\ \A k \in 1..Len(p) : t[i + k - 1] = p[k]

\* Python's  p in t  (plain substring test, no regular expression)
Contains(t, p) == \E i \in 1..(Len(t) - Len(p) + 1) : MatchesAt(t, p, i)

(***************************************************************************)
(* Intent classifier: nlp_intent/classifier.py                             *)
(***************************************************************************)
IntentType ==
    <<"CREATE_TASK", "UPDATE_TASK", "DELETE_TASK", "LIST_TASKS", "SEARCH_TASKS",
      "FILTER_TASKS", "COMPLETE_TASK", "GET_USER_INFO", "UNKNOWN">>

Intents == {IntentType[i] : i \in 1..Len(IntentType)}

\* the dict of _rule_based_classify, in insertion (iteration) order
intent_patterns ==
  << [intent |-> "CREATE_TASK", patterns |-> <<
        <<"a","d","d",".","*","t","a","s","k">>,
        <<"c","r","e","a","t","e",".","*","t","a","s","k">>,
        <<"n","e","w",".","*","t","a","s","k">>,
        <<"m","a","k","e",".","*","t","a","s","k">>,
        <<"a","d","d">>,
        <<"c","r","e","a","t","e">> >>],
     [intent |-> "UPDATE_TASK", patterns |-> <<
        <<"u","p","d","a","t","e",".","*","t","a","s","k">>,
        <<"m","o","d","i","f","y",".","*","t","a","s","k">>,
        <<"c","h","a","n","g","e",".","*","t","a","s","k">>,
        <<"u","p","d","a","t","e">>,
        <<"m","o","d","i","f","y">>,
        <<"c","h","a","n","g","e">>,
        <<"e","d","i","t",".","*","t","a","s","k">>,
        <<"e","d","i","t">>,
        <<"u","p","d","a","t","e",".","*","t","i","t","l","e">>,
        <<"u","p","d","a","t","e",".","*","d","e","s","c","r","i","p","t","i","o","n">>,
        <<"u","p","d","a","t","e",".","*","p","r","i","o","r","i","t","y">>,
        <<"c","h","a","n","g","e",".","*","t","i","t","l","e">>,
        <<"c","h","a","n","g","e",".","*","d","e","s","c","r","i","p","t","i","o","n">>,
        <<"c","h","a","n","g","e",".","*","p","r","i","o","r","i","t","y">>,
        <<"m","o","d","i","f","y",".","*","t","i","t","l","e">>,
        <<"m","o","d","i","f","y",".","*","d","e","s","c","r","i","p","t","i","o","n">>,
        <<"m","o","d","i","f","y",".","*","p","r","i","o","r","i","t","y">> >>],
     [intent |-> "DELETE_TASK", patterns |-> <<
        <<"d","e","l","e","t","e",".","*","t","a","s","k">>,
        <<"r","e","m","o","v","e",".","*","t","a","s","k">>,
        <<"d","r","o","p",".","*","t","a","s","k">>,
        <<"d","e","l","e","t","e">>,
        <<"r","e","m","o","v","e">> >>],
     [intent |-> "LIST_TASKS", patterns |-> <<
        <<"s","h","o","w",".","*","t","a","s","k">>,
        <<"l","i","s","t",".","*","t","a","s","k">>,
        <<"v","i","e","w",".","*","t","a","s","k">>,
        <<"w","h","a","t",".","*","t","a","s","k">>,
        <<"a","l","l",".","*","t","a","s","k">>,
        <<"s","h","o","w">>,
        <<"l","i","s","t">> >>],
     [intent |-> "SEARCH_TASKS", patterns |-> <<
        <<"f","i","n","d",".","*","t","a","s","k">>,
        <<"s","e","a","r","c","h",".","*","t","a","s","k">>,
        <<"l","o","o","k",".","*","f","o","r",".","*","t","a","s","k">>,
        <<"f","i","n","d">>,
        <<"s","e","a","r","c","h">> >>],
     [intent |-> "FILTER_TASKS", patterns |-> <<
        <<"f","i","l","t","e","r",".","*","t","a","s","k">>,
        <<"s","h","o","w",".","*","o","n","l","y">>,
        <<"o","n","l","y",".","*","t","a","s","k">>,
        <<"j","u","s","t",".","*","t","a","s","k">>,
        <<"d","i","s","p","l","a","y",".","*","o","n","l","y">>,
        <<"f","i","l","t","e","r","e","d",".","*","t","a","s","k">>,
        <<"f","i","l","t","e","r">> >>],
     [intent |-> "COMPLETE_TASK", patterns |-> <<
        <<"c","o","m","p","l","e","t","e",".","*","t","a","s","k">>,
        <<"f","i","n","i","s","h",".","*","t","a","s","k">>,
        <<"d","o","n","e",".","*","w","i","t","h",".","*","t","a","s","k">>,
        <<"m","a","r","k",".","*","d","o","n","e">>,
        <<"c","o","m","p","l","e","t","e">>,
        <<"f","i","n","i","s","h">>,
        <<"d","o","n","e">> >>],
     [intent |-> "GET_USER_INFO", patterns |-> <<
        <<"w","h","o",".","*","a","m",".","*","i">>,
        <<"w","h","a","t",".","*","i","s",".","*","m","y",".","*","e","m","a","i","l">>,
        <<"m","y",".","*","i","n","f","o">>,
        <<"u","s","e","r",".","*","i","n","f","o">>,
        <<"w","h","o",".","*","i",".","*","a","m">>,
        <<"m","y",".","*","n","a","m","e">>,
        <<"w","h","a","t",".","*","i","s",".","*","m","y",".","*","n","a","m","e">>,
        <<"m","y",".","*","e","m","a","i","l">>,
        <<"w","h","a","t",".","*","i","s",".","*","m","y",".","*","e","m","a","i","l">> >>] >>

\* score of one intent: the number of its patterns that are substrings
PatternScore(text_lower, patterns) ==
    Cardinality({k \in 1..Len(patterns) : Contains(text_lower, patterns[k])})

\* min(best_score / len(patterns), 1.0), kept as an exact fraction
Confidence(score, total) ==
    IF score > total THEN [num |-> 1, den |-> 1] ELSE [num |-> score, den |-> total]

\* the same loop with  score >= best_score : a later intent takes a tie
RECURSIVE ClassifyLoopLastWins(_, _, _, _)
ClassifyLoopLastWins(text_lower, i, best_intent, best_score) ==
    IF i > Len(intent_patterns)
    THEN [intent |-> best_intent, score |-> best_score]
    ELSE LET score == PatternScore(text_lower, intent_patterns[i].patterns)
         IN  IF score >= best_score /\ score > 0
             THEN ClassifyLoopLastWins(text_lower, i + 1, intent_patterns[i].intent, score)
             ELSE ClassifyLoopLastWins(text_lower, i + 1, best_intent, best_score)

\* the loop of _rule_based_classify over intent_patterns.items(), from entry i on
RECURSIVE ClassifyLoop(_, _, _, _)
ClassifyLoop(text_lower, i, best_intent, best_score) ==
    IF i > Len(intent_patterns)
    THEN [intent |-> best_intent, score |-> best_score]
    ELSE LET score == PatternScore(text_lower, intent_patterns[i].patterns)
         IN  IF score > best_score
             THEN ClassifyLoop(text_lower, i + 1, intent_patterns[i].intent, score)
             ELSE ClassifyLoop(text_lower, i + 1, best_intent, best_score)

PatternsOf(intent) ==
    intent_patterns[CHOOSE i \in 1..Len(intent_patterns) : intent_patterns[i].intent = intent].patterns

rule_based_classify(t) ==
    LET text_lower == strip(lower(t))
        best == ClassifyLoop(text_lower, 1, "UNKNOWN", 0)
    IN  [intent |-> best.intent,
         confidence |-> IF best.score > 0
                        THEN Confidence(best.score, Len(PatternsOf(best.intent)))
                        ELSE [num |-> 0, den |-> 1]]

(***************************************************************************)
(* Input texts for the classifier: up to MaxWords words joined by blanks.  *)
(***************************************************************************)
Vocabulary ==
    << <<"a","d","d">>,
       <<"D","e","l","e","t","e">>,
       <<"s","h","o","w">>,
       <<"l","i","s","t">>,
       <<"u","p","d","a","t","e">>,
       <<"e","d","i","t">>,
       <<"m","y",".","*","e","m","a","i","l">>,
       <<"a","d","d","r","e","s","s">>,
       <<"t","a","s","k">> >>

RECURSIVE Join(_)
Join(ws) ==
    IF ws = <<>> THEN <<>>
    ELSE IF Len(ws) = 1 THEN Vocabulary[ws[1]]
    ELSE Vocabulary[ws[1]] \o <<" ">> \o Join(Tail(ws))

ClassifierTexts ==
    {Join(ws) : ws \in UNION {[1..n -> 1..Len(Vocabulary)] : n \in 0..MaxWords}}



(***************************************************************************)
(* Quality validator: quality_guard/validator.py                           *)
(***************************************************************************)
Digits == {"0", "1", "2", "3", "4", "5", "6", "7", "8", "9"}

\* the characters the regular expression class \w matches
WordChars ==
    {LowerChars[i] : i \in 1..Len(LowerChars)} \cup {UpperChars[i] : i \in 1..Len(UpperChars)}
        \cup Digits \cup {"_"}

IsWordAt(t, k) == k >= 1 /\ k <= Len(t) /\ t[k] \in WordChars

\* the regular expression \b at the position between t[k-1] and t[k]
BoundaryAt(t, k) == IsWordAt(t, k - 1) # IsWordAt(t, k)

\* re.search(r'(\b(a1|a2|...)\b)', t)
SearchBounded(t, alts) ==
    \E i \in 1..Len(t) : \E a \in alts :
        MatchesAt(t, a, i) /\ BoundaryAt(t, i) /\ BoundaryAt(t, i + Len(a))

\* index of the first non-whitespace character at or after k (Len(t)+1 if none)
RECURSIVE SkipWhitespace(_, _)
SkipWhitespace(t, k) ==
    IF k <= Len(t) /\ t[k] \in Whitespace THEN SkipWhitespace(t, k + 1) ELSE k

SqlKeywords ==
    {<<"d","e","l","e","t","e">>,
     <<"d","r","o","p">>,
     <<"t","r","u","n","c","a","t","e">>,
     <<"a","l","t","e","r">>,
     <<"d","r","o","p"," ","t","a","b","l","e">>,
     <<"i","n","s","e","r","t"," ","i","n","t","o">>,
     <<"s","e","l","e","c","t"," ","*"," ","f","r","o","m">>}

ExecKeywords ==
    {<<"e","x","e","c">>,
     <<"s","y","s","t","e","m">>,
     <<"o","s",".">>,
     <<"s","u","b","p","r","o","c","e","s","s",".">>}

CredentialKeywords ==
    {<<"p","a","s","s","w","o","r","d">>,
     <<"s","e","c","r","e","t">>,
     <<"k","e","y">>,
     <<"t","o","k","e","n">>}

\* re.search(r'(password|secret|key|token)\s*[:=]\s*\S+', t)
SearchCredential(t) ==
    \E i \in 1..Len(t) : \E a \in CredentialKeywords :
        /\ MatchesAt(t, a, i)
        /\ LET j == SkipWhitespace(t, i + Len(a))
           IN  /\ j <= Len(t)
               /\ t[j] \in {":", "="}
               /\ SkipWhitespace(t, j + 1) <= Len(t)

\* some entry of self.prohibited_patterns is found in t
MatchesProhibited(t) ==
    \/ SearchBounded(t, SqlKeywords)
    \/ SearchBounded(t, ExecKeywords)
    \/ SearchCredential(t)

restricted_topics ==
    {<<"h","a","r","a","s","s","m","e","n","t">>,
     <<"t","h","r","e","a","t">>,
     <<"v","i","o","l","e","n","c","e">>,
     <<"h","a","t","e"," ","s","p","e","e","c","h">>,
     <<"e","x","p","l","i","c","i","t"," ","c","o","n","t","e","n","t">>,
     <<"s","p","a","m">>,
     <<"s","c","a","m">>}

MatchesRestricted(t) == \E topic \in restricted_topics : Contains(t, topic)

\* the indexes where a maximal run of non-whitespace characters starts
WordStarts(t) ==
    {i \in 1..Len(t) : t[i] \notin Whitespace /\ (i = 1 \/ t[i - 1] \in Whitespace)}

\* the index where the run that starts at a ends
WordEnd(t, a) ==
    CHOOSE e \in a..Len(t) :
        /\ \A m \in a..e : t[m] \notin Whitespace
        /\ e = Len(t) \/ t[e + 1] \in Whitespace

\* str.split(): the maximal runs of non-whitespace characters, in order
split(t) ==
    [k \in 1..Cardinality(WordStarts(t)) |->
        LET a == CHOOSE i \in WordStarts(t) :
                    Cardinality({j \in WordStarts(t) : j < i}) = k - 1
        IN  SubSeq(t, a, WordEnd(t, a))]

\* len(set(words)) / len(words) < 0.2
TooRepetitive(words) == 5 * Cardinality({words[i] : i \in 1..Len(words)}) < Len(words)

\* validate_user_input: the reason it returns ("valid" when is_valid)
validate_user_input(user_input) ==
    LET input_lower == lower(user_input)
    IN  IF MatchesProhibited(input_lower) THEN "contains_prohibited_content"
        ELSE IF MatchesRestricted(input_lower) THEN "contains_restricted_topic"
        ELSE IF Len(strip(user_input)) < 2 THEN "too_short"
        ELSE IF TooRepetitive(split(user_input)) THEN "excessive_repetition"
        ELSE "valid"

\* the message that goes with a reason of validate_user_input
ValidationMessage(reason) ==
    CASE reason = "contains_prohibited_content" -> "Your input contains potentially harmful content"
      [] reason = "contains_restricted_topic" -> "Your input contains content related to a restricted topic"
      [] reason = "too_short" -> "Your input is too short to process"
      [] reason = "excessive_repetition" -> "Your input contains too much repetition"
      [] OTHER -> "Input is valid"

\* str.isupper(): some cased character, and none of them lower case
isupper(t) ==
    /\ \E i \in 1..Len(t) : \E k \in 1..Len(UpperChars) : t[i] = UpperChars[k]
    /\ \A i \in 1..Len(t) : \A k \in 1..Len(LowerChars) : t[i] # LowerChars[k]

\* len(re.findall(r'[!]{3,}', t)): the maximal runs of three or more "!"
ExclamationRuns(t) ==
    Cardinality({i \in 1..Len(t) :
        /\ t[i] = "!" /\ (i = 1 \/ t[i - 1] # "!")
        /\ i + 2 <= Len(t) /\ t[i + 1] = "!" /\ t[i + 2] = "!"})

CapsLock == <<"C","A","P","S"," ","L","O","C","K">>

\* screen_content: has_violations
screen_content(t) ==
    \/ ExclamationRuns(t) > 3
    \/ Contains(t, CapsLock) \/ (Len(t) > 10 /\ isupper(t))
    \/ MatchesProhibited(lower(t))
    \/ MatchesRestricted(lower(t))

\* QualityGuardAgent.validate_and_process
validate_and_process(user_input) ==
    LET reason == validate_user_input(user_input)
    IN  IF reason # "valid"
        THEN [proceed |-> FALSE, message |-> ValidationMessage(reason)]
        ELSE IF screen_content(user_input)
        THEN [proceed |-> FALSE, message |-> "Your input contains content that violates our policies"]
        ELSE [proceed |-> TRUE, message |-> "Input passed all validations"]

(***************************************************************************)
(* Entity extractor: nlp_intent/entity_extractor.py.  A slot is <<>> when  *)
(* absent and <<value>> when set.  The regular expressions are matched     *)
(* with re.IGNORECASE: on the lower-cased text, capturing from the text.   *)
(***************************************************************************)
StopChars == {".", "!", "?"}

\* the lazy group ([^.!?]+?) followed by (?:\.|$) can start at g
GroupValid(t, g) ==
    /\ g >= 1 /\ g <= Len(t)
    /\ t[g] \notin StopChars
    /\ \A k \in g..Len(t) :
          t[k] \in {"!", "?"} => \E m \in g..(k - 1) : t[m] = "."

\* end of the group that starts at g: just before the first "." or at the end
GroupEnd(t, g) ==
    IF \E k \in g..Len(t) : t[k] = "."
    THEN (CHOOSE k \in g..Len(t) : t[k] = "." /\ \A m \in g..(k - 1) : t[m] # ".") - 1
    ELSE Len(t)

\* \s+ at k followed by the group: the start the regex engine settles on
\* (\s+ is greedy and gives characters back one at a time), 0 if none
AfterWs(t, k) ==
    IF k >= 1 /\ k <= Len(t) /\ t[k] \in Whitespace
    THEN LargestOr0({g \in (k + 1)..SkipWhitespace(t, k) : GroupValid(t, g)})
    ELSE 0

\* first non-zero entry of a sequence of candidate starts, 0 if none
RECURSIVE FirstNonZero(_)
FirstNonZero(cs) ==
    IF cs = <<>> THEN 0 ELSE IF Head(cs) # 0 THEN Head(cs) ELSE FirstNonZero(Tail(cs))

AddVerbs == <<<<"a","d","d">>, <<"c","r","e","a","t","e">>, <<"m","a","k","e">>, <<"b","u","y">>, <<"d","o">>, <<"c","o","m","p","l","e","t","e">>, <<"f","i","n","i","s","h">>>>

W_a == <<"a">>
W_task == <<"t","a","s","k">>
W_to == <<"t","o">>
W_that == <<"t","h","a","t">>

\* (?:a\s+)? taken at q: the position after "a" and all its whitespace, else 0
AfterOptionalA(l, q) ==
    IF MatchesAt(l, W_a, q) /\ q + 1 <= Len(l) /\ l[q + 1] \in Whitespace
    THEN SkipWhitespace(l, q + 1) ELSE 0

\* (?:task\s+to\s+|to\s+|that\s+)([^.!?]+?) with the alternation starting at x
AfterLinkWord(t, l, x) ==
    IF x = 0 THEN 0
    ELSE FirstNonZero(<<
        IF /\ MatchesAt(l, W_task, x)
           /\ x + 4 <= Len(l) /\ l[x + 4] \in Whitespace
           /\ MatchesAt(l, W_to, SkipWhitespace(l, x + 4))
        THEN AfterWs(t, SkipWhitespace(l, x + 4) + 2) ELSE 0,
        IF MatchesAt(l, W_to, x) THEN AfterWs(t, x + 2) ELSE 0,
        IF MatchesAt(l, W_that, x) THEN AfterWs(t, x + 4) ELSE 0 >>)

\* add_patterns[0] tried with the verb ending just before p
AddPattern0At(t, l, p) ==
    IF p <= Len(l) /\ l[p] \in Whitespace
    THEN LET q == SkipWhitespace(l, p)
         IN  FirstNonZero(<<AfterLinkWord(t, l, AfterOptionalA(l, q)), AfterLinkWord(t, l, q)>>)
    ELSE 0

\* add_patterns[1] tried with the verb ending just before p
AddPattern1At(t, l, p) ==
    IF p <= Len(l) /\ l[p] \in Whitespace
    THEN LET q == SkipWhitespace(l, p)
         IN  FirstNonZero(<<
                IF AfterOptionalA(l, q) # 0 THEN AfterWs(t, q + 1) ELSE 0,
                AfterWs(t, p) >>)
    ELSE 0

\* add_patterns[n] tried at index i of the text: the start of the group, 0 if none
AddPatternAt(t, l, n, i) ==
    FirstNonZero([v \in 1..Len(AddVerbs) |->
        IF MatchesAt(l, AddVerbs[v], i)
        THEN IF n = 0 THEN AddPattern0At(t, l, i + Len(AddVerbs[v]))
                      ELSE AddPattern1At(t, l, i + Len(AddVerbs[v]))
        ELSE 0])

\* start of the captured group at the leftmost match of an add pattern, 0 if none
AddPatternStart(t, n) ==
    The({IF first = 0 THEN 0 ELSE AddPatternAt(t, l, n, first) :
            l \in {lower(t)},
            first \in {SmallestOr0({i \in 1..Len(t) : AddPatternAt(t, lower(t), n, i) # 0})}})

\* re.sub(r'\s+', ' ', s): every whitespace run becomes one blank
RECURSIVE CollapseWhitespace(_)
CollapseWhitespace(t) ==
    IF t = <<>> THEN <<>>
    ELSE IF Head(t) \in Whitespace
         THEN <<" ">> \o CollapseWhitespace(lstrip(t))
         ELSE <<Head(t)>> \o CollapseWhitespace(Tail(t))

\* match.group(1).strip() with the whitespace collapsed
Captured(t, g) == CollapseWhitespace(strip(SubSeq(t, g, GroupEnd(t, g))))

\* the task_title slot set by the loop over add_patterns
ExtractTaskTitle(t) ==
    The({IF a0 # 0 THEN <<Captured(t, a0)>>
         ELSE IF a1 # 0 THEN <<Captured(t, a1)>>
         ELSE <<>> :
            a0 \in {AddPatternStart(t, 0)}, a1 \in {AddPatternStart(t, 1)}})

W_find == <<"f","i","n","d">>
W_search == <<"s","e","a","r","c","h">>
W_look == <<"l","o","o","k">>
W_for == <<"f","o","r">>
W_show == <<"s","h","o","w">>
W_me == <<"m","e">>
W_item == <<"i","t","e","m">>

SearchLinkWords == <<<<"c","o","n","t","a","i","n","i","n","g">>, <<"a","b","o","u","t">>, <<"w","i","t","h">>, <<"l","i","k","e">>>>

NoNewline(l, a, b) == \A k \in a..b : l[k] # "\n"

\* the positions p just after (?:find|search|look.*for|show.*me) matched at i
TriggerEnds(l, i) ==
    (IF MatchesAt(l, W_find, i) THEN {i + 4} ELSE {})
    \cup (IF MatchesAt(l, W_search, i) THEN {i + 6} ELSE {})
    \cup {j + 3 : j \in {j \in (i + 4)..Len(l) :
                    MatchesAt(l, W_look, i) /\ MatchesAt(l, W_for, j) /\ NoNewline(l, i, j)}}
    \cup {j + 2 : j \in {j \in (i + 4)..Len(l) :
                    MatchesAt(l, W_show, i) /\ MatchesAt(l, W_me, j) /\ NoNewline(l, i, j)}}

\* (?:tasks?|items?)\s+(?:containing|about|with|like)\s+([^!.?]+?) at x
AfterTaskWord(t, l, x) ==
    IF MatchesAt(l, W_task, x) \/ MatchesAt(l, W_item, x)
    THEN LET y == IF x + 4 <= Len(l) /\ l[x + 4] = "s" THEN x + 5 ELSE x + 4
             z == SkipWhitespace(l, y)
         IN  IF y <= Len(l) /\ l[y] \in Whitespace
             THEN FirstNonZero([w \in 1..Len(SearchLinkWords) |->
                     IF MatchesAt(l, SearchLinkWords[w], z)
                     THEN AfterWs(t, z + Len(SearchLinkWords[w])) ELSE 0])
             ELSE 0
    ELSE 0

\* search_patterns[0] continued from trigger end p: .*? takes the earliest x
SearchPattern0From(t, l, p) ==
    The({IF x = 0 THEN 0 ELSE AfterTaskWord(t, l, x) :
            x \in {SmallestOr0({y \in p..Len(l) :
                        AfterTaskWord(t, l, y) # 0 /\ NoNewline(l, p, y)})}})

\* search_patterns[n] continued from trigger end p
SearchPatternFrom(t, l, n, p) ==
    IF n = 0 THEN SearchPattern0From(t, l, p) ELSE AfterWs(t, p)

\* the trigger ends at index i from which search_patterns[n] matches
SearchPatternEnds(t, l, n, i) ==
    {p \in TriggerEnds(l, i) : SearchPatternFrom(t, l, n, p) # 0}

\* start of the captured group at the leftmost match of a search pattern:
\* the greedy .* of the trigger prefers the latest trigger end that works
SearchPatternStart(t, n) ==
    The({IF first = 0 THEN 0
         ELSE SearchPatternFrom(t, l, n, LargestOr0(SearchPatternEnds(t, l, n, first))) :
            l \in {lower(t)},
            first \in {SmallestOr0({i \in 1..Len(t) :
                            SearchPatternEnds(t, lower(t), n, i) # {}})}})

\* the search_term slot set by the loop over search_patterns
ExtractSearchTerm(t) ==
    The({IF s0 # 0 THEN <<Captured(t, s0)>>
         ELSE IF s1 # 0 THEN <<Captured(t, s1)>>
         ELSE <<>> :
            s0 \in {SearchPatternStart(t, 0)}, s1 \in {SearchPatternStart(t, 1)}})

\* _rule_based_extract for a text without update|change|modify: the
\* task_title and search_term slots, and the keys in the order the dict got them
rule_based_extract(t) ==
    The({[task_title  |-> IF title = <<>> /\ term # <<>> THEN term ELSE title,
          search_term |-> term,
          keys |-> IF title # <<>>
                   THEN IF term # <<>> THEN <<"task_title", "search_term">> ELSE <<"task_title">>
                   ELSE IF term # <<>> THEN <<"search_term", "task_title">> ELSE <<>>] :
            title \in {ExtractTaskTitle(t)}, term \in {ExtractSearchTerm(t)}})

(***************************************************************************)
(* The pipeline of orchestrator/agent.py.  What the collaborators outside  *)
(* the package answer is an input of every call:                           *)
(*   authenticated  user_context.get_user_info(auth_token)["authenticated"]*)
(*   prediction     the label cohere_client.classify_intent returns        *)
(*                  ("UNKNOWN" when the request fails)                     *)
(*   task_result    what the handler execute_command dispatches to brings  *)
(*                  back from the task API: a result without suggestions   *)
(*                  ("plain"), one with suggestions, or one that           *)
(*                  check_safety refuses ("unsafe")                        *)
(* The caller's user_id is the string of a UUID, as the endpoints pass it. *)
(***************************************************************************)
CohereConfidence == [num |-> 4, den |-> 5]

\* an IntentType value, or a label that is none
Predictions == {"UNKNOWN", "DELETE_TASK", "other"}

TaskResults == {"plain", "suggestions", "unsafe"}

\* for a caller who is not authenticated the other two are never consulted
Environments ==
    [authenticated : {TRUE}, prediction : Predictions, task_result : TaskResults]
        \cup {[authenticated |-> FALSE, prediction |-> "UNKNOWN", task_result |-> "plain"]}

\* IntentClassifier.classify_intent: the label when it is an IntentType value
classify_intent(t, prediction) ==
    IF prediction \in Intents
    THEN [intent |-> prediction, confidence |-> CohereConfidence]
    ELSE rule_based_classify(t)

\* NLPAgent.process_input; Cohere's entity answer is empty, so the rules apply
process_input(raw_input, prediction) ==
    The({[raw_input |-> raw_input, intent |-> c.intent,
          entities |-> rule_based_extract(raw_input), confidence |-> c.confidence] :
            c \in {classify_intent(raw_input, prediction)}})

\* QualityValidator.validate_command: the entities are validated in dict order
validate_command(command) ==
    The({IF command.raw_input = <<>> THEN "Command is missing raw input"
         ELSE IF bad = {} THEN "Command is valid"
         ELSE IF e.keys[SmallestOr0(bad)] = "task_title"
         THEN "Entity 'task_title' contains invalid content"
         ELSE "Entity 'search_term' contains invalid content" :
            e \in {command.entities},
            bad \in {{k \in 1..Len(command.entities.keys) :
                        validate_user_input(command.entities[command.entities.keys[k]][1])
                            # "valid"}}})

BulkDeletionTerms == {<<"a","l","l">>, <<"e","v","e","r","y","t","h","i","n","g">>, <<"a","l","l"," ","t","a","s","k","s">>, <<"e","v","e","r","y"," ","t","a","s","k">>, <<"*">>, <<"b","u","l","k">>}

BulkDeletionPhrases == {<<"d","e","l","e","t","e"," ","e","v","e","r","y","t","h","i","n","g">>, <<"r","e","m","o","v","e"," ","a","l","l">>, <<"c","l","e","a","r"," ","a","l","l">>}

BulkUpdateWords == {<<"a","l","l">>, <<"e","v","e","r","y">>, <<"e","a","c","h">>}

\* entities.get(key, '')
EntityOrEmpty(slot) == IF slot = <<>> THEN <<>> ELSE slot[1]

\* QualityValidator.validate_task_operation.  The local name entities is
\* bound only inside the branch of the destructive intents, so the test of
\* CREATE_TASK after it raises.
validate_task_operation(command) ==
    LET entities == command.entities
        raw_input_lower == lower(command.raw_input)
        confirm(reason) == [is_valid |-> FALSE, requires_confirmation |-> TRUE,
                            raises |-> FALSE, reason |-> reason]
    IN  IF /\ command.intent = "DELETE_TASK"
           /\ \/ lower(EntityOrEmpty(entities.search_term)) \in BulkDeletionTerms
              \/ lower(EntityOrEmpty(entities.task_title)) \in BulkDeletionTerms
        THEN confirm("bulk_deletion")
        ELSE IF /\ command.intent = "DELETE_TASK"
                /\ \E ph \in BulkDeletionPhrases : Contains(raw_input_lower, ph)
        THEN confirm("bulk_deletion")
        ELSE IF /\ command.intent = "UPDATE_TASK"
                /\ EntityOrEmpty(entities.search_term) # <<>>
                /\ \E w \in BulkUpdateWords : Contains(raw_input_lower, w)
        THEN confirm("bulk_update")
        ELSE IF command.intent = "CREATE_TASK"
        THEN [is_valid |-> FALSE, requires_confirmation |-> FALSE,
              raises |-> TRUE, reason |-> "UnboundLocalError"]
        ELSE [is_valid |-> TRUE, requires_confirmation |-> FALSE,
              raises |-> FALSE, reason |-> "valid"]

\* the intents execute_command hands to a handler of the task API
DispatchedIntents == Intents \ {"FILTER_TASKS", "UNKNOWN"}

\* the dict the pipeline returns: executed tells whether execute_command was
\* called, suggestions whether the dict carries the formatted suggestions
Reply(response, intent, follow_up, ran, suggestions) ==
    [response |-> response, intent |-> intent, requires_follow_up |-> follow_up,
     executed |-> ran, suggestions |-> suggestions]

\* process_user_message from step 3 on, for the command process_input made
execute_and_compose(command, task_result) ==
    The({IF verdict # "Command is valid"
         THEN Reply(verdict, "unknown", FALSE, FALSE, FALSE)
         ELSE IF command.intent \in DispatchedIntents /\ task_result = "unsafe"
         THEN Reply("The result of your request contains content that is not safe to display.",
                    "unknown", FALSE, TRUE, FALSE)
         ELSE Reply("<compose_final_response>", command.intent, FALSE, TRUE,
                    command.intent \in DispatchedIntents /\ task_result = "suggestions") :
            verdict \in {validate_command(command)}})

\* ChatbotOrchestrationAgent.process_user_message
process_user_message(message, env) ==
    The({IF ~validation_result.proceed
         THEN Reply(validation_result.message, "unknown", FALSE, FALSE, FALSE)
         ELSE IF ~env.authenticated
         THEN Reply("You need to be authenticated to use this service.",
                    "unknown", FALSE, FALSE, FALSE)
         ELSE execute_and_compose(command, env.task_result) :
            validation_result \in {validate_and_process(message)},
            command \in {process_input(message, env.prediction)}})

AffirmativeWords == {<<"y","e","s">>, <<"y">>, <<"s","u","r","e">>, <<"o","k">>, <<"c","o","n","f","i","r","m">>, <<"a","f","f","i","r","m","a","t","i","v","e">>}

DenyWords == {<<"n","o">>, <<"n">>, <<"c","a","n","c","e","l">>, <<"s","t","o","p">>, <<"d","e","n","y">>}

\* ChatbotOrchestrationAgent._handle_pending_action; no writer of a pending
\* action stores a "data" entry, so action_data.get("command") is None
handle_pending_action(pending_action, user_input, env) ==
    The({IF pending_action.type = "confirmation_required" /\ ~affirmative
         THEN IF \E w \in DenyWords : Contains(user_input_lower, w)
              THEN Reply("Action cancelled.", "unknown", FALSE, FALSE, FALSE)
              ELSE Reply("Please confirm or deny the action.", "unknown", TRUE, FALSE, FALSE)
         ELSE process_user_message(user_input, env) :
            user_input_lower \in {lower(user_input)},
            affirmative \in {\E w \in AffirmativeWords : Contains(lower(user_input), w)}})

(***************************************************************************)
(* Conversation store: services/conversation_state.py.  A session record   *)
(* keeps user_id, state, messages, pending_action, created_at, expires_at. *)
(* Ids are numbered in the order uuid4 produces them.                      *)
(***************************************************************************)
MaxConversations == 2
MaxMessages == 3
MaxSessionTicks == 2

\* conversation_id None (or empty), and an id no session ever had
NoConversationId == 0
UnknownConversationId == -1

\* pending_action None (a record, as a pending action is)
NoAction == [type |-> "None"]

Users == {"user-1"}

\* the messages callers send, and their characters
Utterances == {"yes", "no", "what?", "Delete all my tasks"}

Chars ==
    "yes" :> <<"y","e","s">> @@
    "no" :> <<"n","o">> @@
    "what?" :> <<"w","h","a","t","?">> @@
    "Delete all my tasks" :> <<"D","e","l","e","t","e"," ","a","l","l"," ","m","y"," ","t","a","s","k","s">>

\* ConversationState.create_conversation under the id uuid4 returns; the
\* three datetime.now() calls of the method fall into the same instant
create_conversation(c, id, user_id) ==
    [k \in DOMAIN c \cup {id} |->
        IF k = id
        THEN [user_id |-> user_id, state |-> "ACTIVE", messages |-> <<>>,
              pending_action |-> NoAction, created_at |-> now,
              expires_at |-> now + SessionTTL]
        ELSE c[k]]

end_conversation(c, id) == [k \in DOMAIN c \ {id} |-> c[k]]

\* the same method testing  now >= expires_at
get_conversation_ExpiresEarly(c, id) ==
    IF id \in DOMAIN c
    THEN IF now >= c[id].expires_at
         THEN [conversations |-> end_conversation(c, id), found |-> FALSE]
         ELSE [conversations |-> c, found |-> TRUE]
    ELSE [conversations |-> c, found |-> FALSE]

\* ConversationState.get_conversation: the store afterwards, and whether a
\* session is returned
get_conversation(c, id) ==
    IF id \in DOMAIN c
    THEN IF now > c[id].expires_at
         THEN [conversations |-> end_conversation(c, id), found |-> FALSE]
         ELSE [conversations |-> c, found |-> TRUE]
    ELSE [conversations |-> c, found |-> FALSE]

update_conversation_state(c, id, new_state) ==
    IF id \in DOMAIN c THEN [c EXCEPT ![id].state = new_state] ELSE c

add_message(c, id, role, content) ==
    IF id \in DOMAIN c
    THEN [c EXCEPT ![id].messages = Append(@, [role |-> role, content |-> content])]
    ELSE c

set_pending_action(c, id, action) ==
    IF id \in DOMAIN c THEN [c EXCEPT ![id].pending_action = action] ELSE c

get_pending_action(c, id) ==
    IF id \in DOMAIN c THEN c[id].pending_action ELSE NoAction

clear_pending_action(c, id) ==
    IF id \in DOMAIN c THEN [c EXCEPT ![id].pending_action = NoAction] ELSE c

\* the sweep taking a session in its last valid minute for expired
cleanup_expired_conversations_Early(c) ==
    [k \in {j \in DOMAIN c : ~(now >= c[j].expires_at)} |-> c[k]]

cleanup_expired_conversations(c) ==
    [k \in {j \in DOMAIN c : ~(now > c[j].expires_at)} |-> c[k]]

(***************************************************************************)
(* Chat workflow: orchestrator/workflow.py.  A workflow method is an       *)
(* operator from the store and the id counter to the store and counter     *)
(* afterwards, the ChatResponse returned and the messages handed to        *)
(* execute_command.                                                        *)
(***************************************************************************)
ChatResponse(conversation_id, response, intent) ==
    [conversation_id |-> conversation_id, response |-> response, intent |-> intent]

Outcome_(c, n, chat_response, ran) ==
    [conversations |-> c, issued |-> n, reply |-> chat_response, executed |-> ran]

\* step 1 with the new session stored under the id the caller supplied
resolve_conversation_KeepsSuppliedId(c, n, conversation_id, user_id) ==
    IF conversation_id = NoConversationId
    THEN [conversations |-> create_conversation(c, n + 1, user_id), id |-> n + 1, issued |-> n + 1]
    ELSE The({IF g.found
              THEN [conversations |-> g.conversations, id |-> conversation_id, issued |-> n]
              ELSE [conversations |->
                        create_conversation(g.conversations, conversation_id, user_id),
                    id |-> conversation_id, issued |-> n] :
                 g \in {get_conversation(c, conversation_id)}})

\* process_chat_message, step 1: get or create the conversation
resolve_conversation(c, n, conversation_id, user_id) ==
    IF conversation_id = NoConversationId
    THEN [conversations |-> create_conversation(c, n + 1, user_id), id |-> n + 1, issued |-> n + 1]
    ELSE The({IF g.found
              THEN [conversations |-> g.conversations, id |-> conversation_id, issued |-> n]
              ELSE [conversations |-> create_conversation(g.conversations, n + 1, user_id),
                    id |-> n + 1, issued |-> n + 1] :
                 g \in {get_conversation(c, conversation_id)}})

\* the action_data callers pass to start_confirmation_flow
ActionData == {[action |-> "delete all tasks"]}

\* a function written out as its table of values: f @@ <<>> equals f, and
\* TLC evaluates @@ to the explicit table
Tabulated(f) == f @@ <<>>

\* the pipeline's answers to the utterances, computed once
PipelineAnswers ==
    Tabulated([m \in Utterances |->
        Tabulated([env \in Environments |-> process_user_message(Chars[m], env)])])

PendingActions == {[type |-> "confirmation_required", action |-> a.action] : a \in ActionData}

PendingAnswers ==
    Tabulated([p \in PendingActions |-> Tabulated([m \in Utterances |->
        Tabulated([env \in Environments |-> handle_pending_action(p, Chars[m], env)])])])

\* process_chat_message, steps 2 and 3: the pipeline, or the pending action first
conversation_step(pending_action, message, env) ==
    IF pending_action # NoAction
    THEN PendingAnswers[pending_action][message][env]
    ELSE PipelineAnswers[message][env]

\* step 5: the state the result asks for
FollowUpState(result) ==
    IF result.requires_follow_up THEN "AWAITING_CLARIFICATION" ELSE "ACTIVE"

\* what the caller gets from a method that raises instead of returning
Raised(exception) ==
    [conversation_id |-> NoConversationId, response |-> exception, intent |-> "<raised>"]

\* ChatResponse(...) of process_chat_message: a result that carries the
\* formatted suggestions (a string, not a list) fails validation.  The
\* handler of the exception starts with logger.error(text, user_id=...,
\* conversation_id=..., message=user_message); error(self, message, **kwargs)
\* gets message twice, so the handler raises TypeError and returns nothing
chat_response(id, result) ==
    IF result.suggestions
    THEN Raised("TypeError")
    ELSE ChatResponse(id, result.response, result.intent)

\* process_chat_message, steps 4 to 6, in the session with the user message stored
answer_in_conversation(c, n, id, message, result) ==
    Outcome_(add_message(update_conversation_state(c, id, FollowUpState(result)),
                         id, "assistant", result.response),
             n, chat_response(id, result), IF result.executed THEN {message} ELSE {})

\* process_chat_message, steps 2 to 6, in the session step 1 resolved
process_in_conversation(c, n, id, message, env) ==
    The({answer_in_conversation(c2, n, id, message, result) :
            c2 \in {add_message(c, id, "user", message)},
            result \in {conversation_step(
                            get_pending_action(add_message(c, id, "user", message), id),
                            message, env)}})

process_chat_message(c, n, conversation_id, user_id, message, env) ==
    The({process_in_conversation(r.conversations, r.issued, r.id, message, env) :
            r \in {resolve_conversation(c, n, conversation_id, user_id)}})

\* ChatResponse(...) of process_clarification_response
clarification_response(id, result) ==
    IF result.suggestions
    THEN ChatResponse(id, "Sorry, I had trouble processing your clarification. Could you rephrase?",
                      "clarification_error")
    ELSE ChatResponse(id, result.response,
                      IF result.intent = "unknown" THEN "clarification_processed"
                      ELSE result.intent)

\* the same method leaving the state as it is
process_clarification_response_KeepsState(c, n, conversation_id, user_id, message, env) ==
    The({IF ~g.found
         THEN Outcome_(g.conversations, n,
                       ChatResponse(conversation_id,
                                    "I couldn't find your conversation. Let's start fresh.",
                                    "restart"),
                       {})
         ELSE Outcome_(
                  IF ~result.requires_follow_up
                  THEN clear_pending_action(c3, conversation_id) ELSE c3,
                  n, clarification_response(conversation_id, result),
                  IF result.executed THEN {message} ELSE {}) :
            g \in {get_conversation(c, conversation_id)},
            result \in {PipelineAnswers[message][env]},
            c3 \in {add_message(add_message(c, conversation_id, "user", message),
                                conversation_id, "assistant",
                                PipelineAnswers[message][env].response)}})

\* process_clarification_response: the context handed to handle_conversation_step
\* has no "pending_action" entry, so the message goes through the pipeline
process_clarification_response(c, n, conversation_id, user_id, message, env) ==
    The({IF ~g.found
         THEN Outcome_(g.conversations, n,
                       ChatResponse(conversation_id,
                                    "I couldn't find your conversation. Let's start fresh.",
                                    "restart"),
                       {})
         ELSE Outcome_(
                  IF ~result.requires_follow_up
                  THEN clear_pending_action(c4, conversation_id) ELSE c4,
                  n, clarification_response(conversation_id, result),
                  IF result.executed THEN {message} ELSE {}) :
            g \in {get_conversation(c, conversation_id)},
            result \in {PipelineAnswers[message][env]},
            c4 \in {update_conversation_state(
                        add_message(add_message(c, conversation_id, "user", message),
                                    conversation_id, "assistant",
                                    PipelineAnswers[message][env].response),
                        conversation_id, "ACTIVE")}})

ConfirmationMessage(action) ==
    CASE action = "delete all tasks" ->
        "Please confirm that you want to delete all tasks. Respond with 'yes' to confirm or 'no' to cancel."

ConfirmedMessage(action) ==
    CASE action = "delete all tasks" -> "Confirmed. delete all tasks has been executed."

start_confirmation_flow(c, n, conversation_id, action_data) ==
    Outcome_(add_message(
                 update_conversation_state(
                     set_pending_action(c, conversation_id,
                         [type |-> "confirmation_required", action |-> action_data.action]),
                     conversation_id, "CONFIRMATION_REQUIRED"),
                 conversation_id, "assistant", ConfirmationMessage(action_data.action)),
             n,
             ChatResponse(conversation_id, ConfirmationMessage(action_data.action),
                          "confirmation_required"),
             {})

ConfirmedWords == {<<"y","e","s">>, <<"y">>, <<"c","o","n","f","i","r","m">>, <<"o","k">>, <<"s","u","r","e">>, <<"a","f","f","i","r","m","a","t","i","v","e">>, <<"p","r","o","c","e","e","d">>}

DeniedWords == {<<"n","o">>, <<"n">>, <<"d","e","n","y">>, <<"c","a","n","c","e","l">>, <<"s","t","o","p">>, <<"r","e","j","e","c","t">>}

\* what handle_confirmation_response makes of the user's words
ConfirmationReading(user_response) ==
    LET user_input_lower == strip(lower(user_response))
    IN  IF \E w \in ConfirmedWords : Contains(user_input_lower, w) THEN "confirmed"
        ELSE IF \E w \in DeniedWords : Contains(user_input_lower, w) THEN "denied"
        ELSE "unclear"

ConfirmationReadings == Tabulated([m \in Utterances |-> ConfirmationReading(Chars[m])])

ConfirmationReply(reading, pending_action) ==
    CASE reading = "confirmed" ->
            [response |-> ConfirmedMessage(pending_action.action), intent |-> "action_confirmed"]
      [] reading = "denied" ->
            [response |-> "Action cancelled as requested.", intent |-> "action_cancelled"]
      [] OTHER ->
            [response |-> "I didn't understand your response. Please respond with 'yes' to confirm or 'no' to cancel.",
             intent |-> "awaiting_confirmation"]

\* the same branch storing the user message only when the reply was understood
settle_confirmation_UnclearUnrecorded(c, n, conversation_id, message, reading, answer) ==
    Outcome_(add_message(
                 IF reading = "unclear" THEN c
                 ELSE add_message(
                          update_conversation_state(clear_pending_action(c, conversation_id),
                                                    conversation_id, "ACTIVE"),
                          conversation_id, "user", message),
                 conversation_id, "assistant", answer.response),
             n, ChatResponse(conversation_id, answer.response, answer.intent), {})

\* the branch of handle_confirmation_response for a pending action
settle_confirmation(c, n, conversation_id, message, reading, answer) ==
    Outcome_(add_message(
                 add_message(
                     IF reading = "unclear" THEN c
                     ELSE update_conversation_state(clear_pending_action(c, conversation_id),
                                                    conversation_id, "ACTIVE"),
                     conversation_id, "user", message),
                 conversation_id, "assistant", answer.response),
             n, ChatResponse(conversation_id, answer.response, answer.intent), {})

handle_confirmation_response(c, n, conversation_id, user_id, message, env) ==
    The({IF pending_action = NoAction
         THEN process_chat_message(c, n, conversation_id, user_id, message, env)
         ELSE settle_confirmation(c, n, conversation_id, message,
                                  ConfirmationReadings[message],
                                  ConfirmationReply(ConfirmationReadings[message], pending_action)) :
            pending_action \in {get_pending_action(c, conversation_id)}})

\* the request threads of the server, and a thread that handles no request
Threads == {"t1", "t2"}

IdleThread == [pc |-> "idle"]

NoReply == [op |-> "none", arg |-> NoConversationId, conversation_id |-> NoConversationId,
            response |-> "", intent |-> ""]

\* ConversationState.__init__ and the workflow singleton
InitConversations ==
    /\ conversations = <<>>
    /\ issued = 0
    /\ reply = NoReply
    /\ executed = {}
    /\ threads = [t \in Threads |-> IdleThread]

(***************************************************************************)
(* Confirmation service: services/confirmation_service.py                  *)
(***************************************************************************)
ConfIds == 1..MaxConfirmations

\* an id no request was ever created under
UnknownId == 0

NoRequest == [exists |-> FALSE, expires_at |-> 0, is_confirmed |-> FALSE, is_rejected |-> FALSE]

\* uuid4(): the ids are handed out in order, never twice
CreatedIds == {id \in ConfIds : requests[id].exists}

FreshConfIds == IF CreatedIds = ConfIds THEN {} ELSE {Cardinality(CreatedIds) + 1}

\* ConfirmationRequest.__init__
ConfirmationRequest ==
    [exists |-> TRUE, expires_at |-> now + EXPIRES_IN_MINUTES,
     is_confirmed |-> FALSE, is_rejected |-> FALSE]

\* is_expired(confirmation)
is_expired(confirmation) == now > confirmation.expires_at

\* each method: the store after the call and the value returned
create_confirmation_request(id) ==
    [requests |-> [requests EXCEPT ![id] = ConfirmationRequest],
     pending  |-> pending_confirmations \cup {id},
     ok       |-> TRUE]

\* reject_action that leaves is_confirmed as it was
reject_action_KeepsConfirmed(id) ==
    IF id \in pending_confirmations /\ ~is_expired(requests[id])
    THEN [requests |-> [requests EXCEPT ![id].is_rejected = TRUE],
          pending  |-> pending_confirmations \ {id},
          ok       |-> TRUE]
    ELSE [requests |-> requests, pending |-> pending_confirmations, ok |-> FALSE]

\* confirm_action without the expiry test
confirm_action_NoExpiryCheck(id) ==
    IF id \in pending_confirmations
    THEN [requests |-> [requests EXCEPT ![id].is_confirmed = TRUE, ![id].is_rejected = FALSE],
          pending  |-> pending_confirmations,
          ok       |-> TRUE]
    ELSE [requests |-> requests, pending |-> pending_confirmations, ok |-> FALSE]

confirm_action(id) ==
    IF id \in pending_confirmations /\ ~is_expired(requests[id])
    THEN [requests |-> [requests EXCEPT ![id].is_confirmed = TRUE, ![id].is_rejected = FALSE],
          pending  |-> pending_confirmations,
          ok       |-> TRUE]
    ELSE [requests |-> requests, pending |-> pending_confirmations, ok |-> FALSE]

reject_action(id) ==
    IF id \in pending_confirmations /\ ~is_expired(requests[id])
    THEN [requests |-> [requests EXCEPT ![id].is_confirmed = FALSE, ![id].is_rejected = TRUE],
          pending  |-> pending_confirmations \ {id},
          ok       |-> TRUE]
    ELSE [requests |-> requests, pending |-> pending_confirmations, ok |-> FALSE]

\* get_confirmation_status without the expiry test
get_confirmation_status_NoExpiryCheck(id) ==
    IF id \in pending_confirmations
    THEN [requests |-> requests, pending |-> pending_confirmations, ok |-> TRUE]
    ELSE [requests |-> requests, pending |-> pending_confirmations, ok |-> FALSE]

\* ok: a ConfirmationRequest is returned;  ~ok: None
get_confirmation_status(id) ==
    IF id \in pending_confirmations
    THEN IF is_expired(requests[id])
         THEN [requests |-> requests, pending |-> pending_confirmations \ {id}, ok |-> FALSE]
         ELSE [requests |-> requests, pending |-> pending_confirmations, ok |-> TRUE]
    ELSE [requests |-> requests, pending |-> pending_confirmations, ok |-> FALSE]

\* process_confirmed_action that forgets to delete the record
process_confirmed_action_NoDelete(id) ==
    LET st == get_confirmation_status(id)
    IN  IF st.ok /\ requests[id].is_confirmed
        THEN [requests |-> st.requests, pending |-> st.pending, ok |-> TRUE]
        ELSE [requests |-> st.requests, pending |-> st.pending, ok |-> FALSE]

\* ok: a ProcessedCommandResult(success=True) is returned;  ~ok: None
process_confirmed_action(id) ==
    LET st == get_confirmation_status(id)
    IN  IF st.ok /\ requests[id].is_confirmed
        THEN [requests |-> st.requests, pending |-> st.pending \ {id}, ok |-> TRUE]
        ELSE [requests |-> st.requests, pending |-> st.pending, ok |-> FALSE]

cleanup_expired_confirmations ==
    LET expired_ids == {id \in pending_confirmations : now > requests[id].expires_at}
    IN  [requests |-> requests, pending |-> pending_confirmations \ expired_ids, ok |-> TRUE]

(***************************************************************************)
(* Task service: services/task_service.py over the tasks table.  A row     *)
(* keeps user_id, title and completed; ids are numbered in the order uuid4 *)
(* produces them.  A call returns the table afterwards, the rows handed    *)
(* back (none for None) and whether it succeeded.                          *)
(***************************************************************************)
MaxTasks == 2

\* a task id no row ever had
UnknownTaskId == -1

TaskUsers == {"A", "B"}

Titles == {"t1", "t2"}

\* the optional arguments of update_task_for_user that the rows keep
Updates == [title : Titles \cup {"None"}, completed : {"None", "True", "False"}]

NoTaskCall == [op |-> "none", user_id |-> "", task_id |-> UnknownTaskId, rows |-> {}, ok |-> FALSE]

Row(ts, id) ==
    [id |-> id, user_id |-> ts[id].user_id, title |-> ts[id].title,
     completed |-> ts[id].completed]

Returned(ts, rows, ok) == [tasks |-> ts, rows |-> rows, ok |-> ok]

\* select(Task).where(Task.user_id == user_id)
get_tasks_by_user(ts, user_id) ==
    Returned(ts, {Row(ts, id) : id \in {k \in DOMAIN ts : ts[k].user_id = user_id}}, TRUE)

create_task_for_user(ts, id, user_id, title) ==
    The({Returned(created, {Row(created, id)}, TRUE) :
            created \in {ts @@ (id :> [user_id |-> user_id, title |-> title,
                                       completed |-> FALSE])}})

get_task_by_id_and_user(ts, task_id, user_id) ==
    IF task_id \in DOMAIN ts /\ ts[task_id].user_id = user_id
    THEN Returned(ts, {Row(ts, task_id)}, TRUE)
    ELSE Returned(ts, {}, FALSE)

update_task_for_user(ts, task_id, user_id, update) ==
    IF task_id \notin DOMAIN ts \/ ts[task_id].user_id # user_id
    THEN Returned(ts, {}, FALSE)
    ELSE The({Returned(updated, {Row(updated, task_id)}, TRUE) :
                updated \in {[ts EXCEPT
                    ![task_id].title = IF update.title # "None" THEN update.title ELSE @,
                    ![task_id].completed =
                        IF update.completed # "None" THEN update.completed = "True" ELSE @]}})

\* delete_task_for_user without the comparison of the owner
delete_task_for_user_AnyOwner(ts, task_id, user_id) ==
    IF task_id \notin DOMAIN ts
    THEN Returned(ts, {}, FALSE)
    ELSE Returned([k \in DOMAIN ts \ {task_id} |-> ts[k]], {}, TRUE)

delete_task_for_user(ts, task_id, user_id) ==
    IF task_id \notin DOMAIN ts \/ ts[task_id].user_id # user_id
    THEN Returned(ts, {}, FALSE)
    ELSE Returned([k \in DOMAIN ts \ {task_id} |-> ts[k]], {}, TRUE)

toggle_task_completion(ts, task_id, user_id, completed) ==
    IF task_id \notin DOMAIN ts \/ ts[task_id].user_id # user_id
    THEN Returned(ts, {}, FALSE)
    ELSE The({Returned(toggled, {Row(toggled, task_id)}, TRUE) :
                toggled \in {[ts EXCEPT ![task_id].completed = completed]}})

\* an empty tasks table
InitTasks ==
    /\ tasks = <<>>
    /\ task_ids = 0
    /\ task_call = NoTaskCall

taskVars == <<tasks, task_ids, task_call>>

\* state of the pure functions applied to text
NotExtracted == [called |-> FALSE]

NotStarted == [strategy |-> "none"]

NotAsked == [called |-> FALSE]

NoLimiter == [operation |-> "none"]

auxVars == <<extracted, processing, clarification, limiter>>

InitAux ==
    /\ extracted = NotExtracted
    /\ processing = NotStarted
    /\ clarification = NotAsked
    /\ limiter = NoLimiter

textVars == <<text, classification, cohere, statements, outcomes, aggregate, taskVars, auxVars>>

convVars == <<conversations, issued, reply, executed, threads>>

\* the ids a caller can name: those handed out so far, or an unknown one
CallableConfIds == CreatedIds \cup {UnknownId}

Apply(op, id, r) ==
    /\ requests' = r.requests
    /\ pending_confirmations' = r.pending
    /\ last' = [op |-> op, id |-> id, ok |-> r.ok]
    /\ UNCHANGED textVars
    /\ UNCHANGED convVars

CreateConfirmation ==
    \E id \in FreshConfIds :
        /\ Apply("create", id, create_confirmation_request(id))
        /\ UNCHANGED <<now, ticks, processed>>

ConfirmAction ==
    \E id \in CallableConfIds :
        /\ Apply("confirm", id, confirm_action(id))
        /\ UNCHANGED <<now, ticks, processed>>

RejectAction ==
    \E id \in CallableConfIds :
        /\ Apply("reject", id, reject_action(id))
        /\ UNCHANGED <<now, ticks, processed>>

GetConfirmationStatus ==
    \E id \in CallableConfIds :
        /\ Apply("status", id, get_confirmation_status(id))
        /\ UNCHANGED <<now, ticks, processed>>

ProcessConfirmedAction ==
    \E id \in CallableConfIds :
        LET r == process_confirmed_action(id)
        IN  /\ Apply("process", id, r)
            /\ processed' = IF r.ok THEN [processed EXCEPT ![id] = @ + 1] ELSE processed
            /\ UNCHANGED <<now, ticks>>

CleanupExpiredConfirmations ==
    /\ Apply("cleanup", UnknownId, cleanup_expired_confirmations)
    /\ UNCHANGED <<now, ticks, processed>>

\* time passes
Tick ==
    \E d \in TimeSteps :
        /\ ticks < MaxTicks
        /\ now' = now + d
        /\ ticks' = ticks + 1
        /\ last' = [op |-> "tick", id |-> UnknownId, ok |-> TRUE]
        /\ UNCHANGED <<requests, pending_confirmations, processed>>
        /\ UNCHANGED textVars
        /\ UNCHANGED convVars

vars == <<text, classification, cohere, statements, outcomes, aggregate, tasks, task_ids, task_call, extracted, processing, clarification, limiter, now, ticks, requests, pending_confirmations, processed, last,
          conversations, issued, reply, executed, threads>>

confVars == <<now, ticks, requests, pending_confirmations, processed, last>>

InitStore ==
    /\ now = 0
    /\ ticks = 0
    /\ requests = [id \in ConfIds |-> NoRequest]
    /\ pending_confirmations = {}
    /\ processed = [id \in ConfIds \cup {UnknownId} |-> 0]
    /\ last = [op |-> "none", id |-> UnknownId, ok |-> TRUE]

InitText ==
    /\ text = <<>>
    /\ classification = NoResult
    /\ cohere = "none"
    /\ statements = NotDecomposed
    /\ outcomes = <<>>
    /\ aggregate = NotProcessed
    /\ InitTasks
    /\ InitAux

NextConfirm ==
    \/ CreateConfirmation
    \/ ConfirmAction
    \/ RejectAction
    \/ GetConfirmationStatus
    \/ ProcessConfirmedAction
    \/ CleanupExpiredConfirmations
    \/ Tick

InitConfirm == InitStore /\ InitText /\ InitConversations

SpecConfirm == InitConfirm /\ [][NextConfirm]_vars

(***************************************************************************)
(* C2: for every confirmation request, after any sequence of create,       *)
(* confirm, reject and process_confirmed calls, is_confirmed and           *)
(* is_rejected are never both true (also on an object already removed      *)
(* from the store).                                                        *)
(***************************************************************************)
C2_NeverConfirmedAndRejected ==
    \A id \in ConfIds : ~(requests[id].is_confirmed /\ requests[id].is_rejected)

\* a request that was rejected by the last call while another one stands confirmed
C2_Witness ==
    /\ last.op = "reject" /\ last.ok
    /\ requests[last.id].is_rejected
    /\ \E id \in ConfIds : requests[id].is_confirmed

(***************************************************************************)
(* C3: each request follows CREATED -> CONFIRMED | REJECTED | EXPIRED and  *)
(* each of the three outcomes is terminal: once a request is confirmed,    *)
(* rejected or expired, no later confirm or reject call moves it to a      *)
(* different outcome.                                                      *)
(***************************************************************************)
Outcome(r, t) ==
    IF ~r.exists THEN "NONE"
    ELSE IF r.is_confirmed THEN "CONFIRMED"
    ELSE IF r.is_rejected THEN "REJECTED"
    ELSE IF t > r.expires_at THEN "EXPIRED"
    ELSE "CREATED"

C3_OutcomesAreTerminal ==
    [][\A id \in ConfIds :
          (/\ Outcome(requests[id], now) \in {"CONFIRMED", "REJECTED", "EXPIRED"}
           /\ last'.op \in {"confirm", "reject"})
          => Outcome(requests'[id], now') = Outcome(requests[id], now)]_vars

(***************************************************************************)
(* C4: for a live request, confirm(id) followed by process_confirmed(id)   *)
(* succeeds exactly once: a process_confirmed on a stored, confirmed,      *)
(* unexpired request returns a result and deletes the record, and every    *)
(* process_confirmed(id) and confirm(id) after that fails.                 *)
(***************************************************************************)
C4_ProcessConfirmedOnce ==
    [][\A id \in ConfIds :
          /\ (/\ last'.op = "process" /\ last'.id = id
              /\ id \in pending_confirmations
              /\ requests[id].is_confirmed
              /\ ~is_expired(requests[id]))
             => (last'.ok /\ id \notin pending_confirmations' /\ processed'[id] = 1)
          /\ (/\ processed[id] >= 1
              /\ last'.op \in {"process", "confirm"} /\ last'.id = id)
             => (~last'.ok /\ processed'[id] = 1)]_vars

\* a second process_confirmed on an id already processed has just failed
C4_Witness ==
    /\ last.op = "process" /\ ~last.ok
    /\ last.id \in ConfIds
    /\ processed[last.id] = 1

(***************************************************************************)
(* C5: after a request's expires_at has passed, confirm(id) fails without  *)
(* setting is_confirmed, and get_confirmation_status(id) reports not       *)
(* found.                                                                  *)
(***************************************************************************)
C5_ExpiredConfirmFails ==
    [][\A id \in ConfIds :
          (requests[id].exists /\ now > requests[id].expires_at)
          => /\ (last'.op = "confirm" /\ last'.id = id)
                => (~last'.ok /\ requests'[id].is_confirmed = requests[id].is_confirmed)
             /\ (last'.op = "status" /\ last'.id = id) => ~last'.ok]_vars

\* confirm has just failed on a stored request whose expires_at has passed
C5_Witness ==
    /\ last.op = "confirm" /\ ~last.ok
    /\ last.id \in pending_confirmations
    /\ now > requests[last.id].expires_at
    /\ ~requests[last.id].is_confirmed


(***************************************************************************)
(* Specification of the classifier as a pure function.                     *)
(***************************************************************************)
InitClassify ==
    /\ text \in ClassifierTexts
    /\ classification = NoResult
    /\ cohere = "none"
    /\ statements = NotDecomposed
    /\ outcomes = <<>>
    /\ aggregate = NotProcessed
    /\ InitTasks
    /\ InitAux
    /\ InitStore
    /\ InitConversations

Classify ==
    /\ classification = NoResult
    /\ classification' = rule_based_classify(text)
    /\ UNCHANGED <<text, cohere, statements, outcomes, aggregate, taskVars, auxVars>>
    /\ UNCHANGED confVars
    /\ UNCHANGED convVars

NextClassify == Classify

SpecClassify == InitClassify /\ [][NextClassify]_vars

(***************************************************************************)
(* C10: for every input text the rule-based classifier returns the intent  *)
(* with the highest number of matching patterns, ties going to the         *)
(* first-declared intent, with confidence matched_count / total_patterns   *)
(* of that intent, which lies in [0,1]; with zero matches it returns       *)
(* (UNKNOWN, 0.0); the intent is always a member of the intent set.        *)
(***************************************************************************)
MatchCount(i) == PatternScore(strip(lower(text)), intent_patterns[i].patterns)

C10_ClassifierPicksFirstBest ==
    classification # NoResult =>
        LET D == 1..Len(intent_patterns)
            c == classification.confidence
        IN  /\ classification.intent \in Intents
            /\ c.den > 0 /\ 0 <= c.num /\ c.num <= c.den
            /\ IF \A i \in D : MatchCount(i) = 0
               THEN classification.intent = "UNKNOWN" /\ c.num = 0
               ELSE \E i \in D :
                      /\ classification.intent = intent_patterns[i].intent
                      /\ \A j \in D : MatchCount(j) <= MatchCount(i)
                      /\ \A j \in D : j < i => MatchCount(j) < MatchCount(i)
                      /\ c = [num |-> MatchCount(i), den |-> Len(intent_patterns[i].patterns)]

\* a classified text on which two intents tie for the highest count
C10_Witness ==
    /\ classification # NoResult
    /\ \E i, j \in 1..Len(intent_patterns) :
          /\ i < j
          /\ MatchCount(i) > 0
          /\ MatchCount(i) = MatchCount(j)
          /\ \A k \in 1..Len(intent_patterns) : MatchCount(k) <= MatchCount(i)

(***************************************************************************)
(* IntentClassifier.classify_intent with the Cohere request as an input.   *)
(***************************************************************************)
\* what self.client.classify does: the request raises, the response has no
\* classifications, or it carries a prediction (the label of an example, or
\* a label that is no IntentType value)
CohereResponses == {"raises", "no_classifications", "CREATE_TASK", "DELETE_TASK", "other"}

\* CohereClient.classify_intent: the label it returns
cohere_classify_intent(response) ==
    IF response \in {"raises", "no_classifications"} THEN "UNKNOWN" ELSE response

ClassifyIntent ==
    \E response \in CohereResponses :
        /\ classification = NoResult
        /\ cohere' = response
        /\ classification' = classify_intent(text, cohere_classify_intent(response))
        /\ UNCHANGED <<text, statements, outcomes, aggregate, taskVars, auxVars>>
        /\ UNCHANGED confVars
        /\ UNCHANGED convVars

NextIntent == ClassifyIntent

InitIntent ==
    /\ text \in ClassifierTexts
    /\ classification = NoResult
    /\ cohere = "none"
    /\ statements = NotDecomposed
    /\ outcomes = <<>>
    /\ aggregate = NotProcessed
    /\ InitTasks
    /\ InitAux
    /\ InitStore
    /\ InitConversations

SpecIntent == InitIntent /\ [][NextIntent]_vars

(***************************************************************************)
(* C11: when the Cohere request fails, is unavailable or brings a label    *)
(* that is no known intent, classify_intent returns what the rule-based    *)
(* path returns for the same text.                                         *)
(***************************************************************************)
C11_FailureFallsBackToRules ==
    cohere \in {"raises", "no_classifications", "other"}
        => classification = rule_based_classify(text)

(***************************************************************************)
(* Multi-intent processor: orchestrator/multi_intent.py                    *)
(***************************************************************************)
MaxTokens == 3

W_and == <<"a","n","d">>

\* number of entries of self.intent_separator_patterns
SeparatorPatterns == 6

\* intent_separator_patterns[n - 1] matched at index i of t: the index after
\* the match, 0 if there is none; ignore_case stands for re.IGNORECASE
SeparatorEnd(n, t, i, ignore_case) ==
    IF i < 1 \/ i > Len(t) THEN 0
    ELSE CASE n = 1 ->
                 IF /\ MatchesAt(IF ignore_case THEN lower(t) ELSE t, W_and, i)
                    /\ BoundaryAt(t, i)
                    /\ BoundaryAt(t, i + 3)
                 THEN i + 3 ELSE 0
           [] n = 2 -> IF t[i] = ";" THEN i + 1 ELSE 0
           [] n = 3 -> IF t[i] = "." THEN i + 1 ELSE 0
           [] n = 4 -> IF t[i] \in {"?", "!"} THEN i + 1 ELSE 0
           [] n = 5 ->
                 IF t[i] = ","
                 THEN The({IF MatchesAt(IF ignore_case THEN lower(t) ELSE t, W_and, a)
                           THEN SkipWhitespace(t, a + 3) ELSE 0 :
                              a \in {SkipWhitespace(t, i + 1)}})
                 ELSE 0
           [] n = 6 ->
                 IF t[i] = "&" /\ ~IsWordAt(t, i - 1) /\ ~MatchesAt(t, <<"&">>, i + 1)
                 THEN i + 1 ELSE 0

\* re.split(f'({pattern})', part) from index i on, the text piece under way
\* having started at a: the pieces and the separators between them
RECURSIVE re_split(_, _, _, _)
re_split(n, t, a, i) ==
    IF i > Len(t) THEN <<SubSeq(t, a, Len(t))>>
    ELSE The({IF e # 0
              THEN <<SubSeq(t, a, i - 1), SubSeq(t, i, e - 1)>> \o re_split(n, t, e, e)
              ELSE re_split(n, t, a, i + 1) :
                 e \in {SeparatorEnd(n, t, i, FALSE)}})

\* the loop over split_parts from item k on: what it appends to reconstructed
RECURSIVE reconstruct(_, _, _, _)
reconstruct(n, split_parts, k, current_part) ==
    IF k > Len(split_parts)
    THEN IF strip(current_part) # <<>> THEN <<strip(current_part)>> ELSE <<>>
    ELSE IF SeparatorEnd(n, strip(split_parts[k]), 1, TRUE) # 0
         THEN IF strip(current_part) # <<>>
              THEN <<strip(current_part)>> \o reconstruct(n, split_parts, k + 1, <<>>)
              ELSE reconstruct(n, split_parts, k + 1, current_part)
         ELSE The({reconstruct(n, split_parts, k + 1, c) :
                      c \in {current_part \o split_parts[k]}})

\* the loop over parts for one pattern: new_parts
RECURSIVE split_parts_by(_, _)
split_parts_by(n, parts) ==
    IF parts = <<>> THEN <<>>
    ELSE The({reconstruct(n, items, 1, <<>>) : items \in {re_split(n, Head(parts), 1, 1)}})
             \o split_parts_by(n, Tail(parts))

\* the loop over self.intent_separator_patterns from pattern n on
RECURSIVE split_by_patterns(_, _)
split_by_patterns(n, parts) ==
    IF n > SeparatorPatterns THEN parts
    ELSE The({split_by_patterns(n + 1, new_parts) :
                 new_parts \in {split_parts_by(n, parts)}})

\* [part.strip() for part in parts if part.strip()]
RECURSIVE strip_nonempty(_)
strip_nonempty(parts) ==
    IF parts = <<>> THEN <<>>
    ELSE (IF strip(Head(parts)) # <<>> THEN <<strip(Head(parts))>> ELSE <<>>)
             \o strip_nonempty(Tail(parts))

\* str.split(sep) from index i on, the piece under way having started at a
RECURSIVE split_on(_, _, _, _)
split_on(t, sep, a, i) ==
    IF i + Len(sep) - 1 > Len(t) THEN <<SubSeq(t, a, Len(t))>>
    ELSE IF MatchesAt(t, sep, i)
         THEN <<SubSeq(t, a, i - 1)>> \o split_on(t, sep, i + Len(sep), i + Len(sep))
         ELSE split_on(t, sep, a, i + 1)

\* the refinement loop over cleaned_parts
RECURSIVE refine(_)
refine(cleaned_parts) ==
    IF cleaned_parts = <<>> THEN <<>>
    ELSE (IF Contains(lower(Head(cleaned_parts)), <<" ">> \o W_and \o <<" ">>)
          THEN strip_nonempty(split_on(Head(cleaned_parts), <<" ">> \o W_and \o <<" ">>, 1, 1))
          ELSE <<Head(cleaned_parts)>>)
             \o refine(Tail(cleaned_parts))

\* MultiIntentProcessor.extract_multiple_intents
extract_multiple_intents(raw_input) ==
    refine(strip_nonempty(split_by_patterns(1, <<strip(raw_input)>>)))

\* the pieces the input texts are put together from
Tokens ==
    << <<"b","u","y">>, <<"A","n","d">>, <<"a","n","d">>, <<" ","a","n","d"," ">>, <<" ">>,
       <<";">>, <<".">>, <<"?">>, <<"&">>, <<",">> >>

RECURSIVE Concat(_)
Concat(ws) == IF ws = <<>> THEN <<>> ELSE Tokens[Head(ws)] \o Concat(Tail(ws))

DecomposerTexts ==
    {Concat(ws) : ws \in UNION {[1..n -> 1..Len(Tokens)] : n \in 0..MaxTokens}}

ExtractMultipleIntents ==
    /\ ~statements.done
    /\ statements' = [done |-> TRUE, parts |-> extract_multiple_intents(text)]
    /\ UNCHANGED <<text, classification, cohere, outcomes, aggregate, taskVars, auxVars>>
    /\ UNCHANGED confVars
    /\ UNCHANGED convVars

NextDecompose == ExtractMultipleIntents

InitDecompose ==
    /\ text \in DecomposerTexts
    /\ classification = NoResult
    /\ cohere = "none"
    /\ statements = NotDecomposed
    /\ outcomes = <<>>
    /\ aggregate = NotProcessed
    /\ InitTasks
    /\ InitAux
    /\ InitStore
    /\ InitConversations

SpecDecompose == InitDecompose /\ [][NextDecompose]_vars

(***************************************************************************)
(* C12: extract_multiple_intents returns a non-empty list for every input  *)
(* text, the empty string and a text made only of separators included,     *)
(* and a list of length 1 when the text contains no separator.             *)
(***************************************************************************)
HasSeparator(t) ==
    \E n \in 1..SeparatorPatterns, i \in 1..Len(t) : SeparatorEnd(n, t, i, TRUE) # 0

C12_DecomposeNeverEmpty ==
    statements.done =>
        /\ Len(statements.parts) >= 1
        /\ ~HasSeparator(text) => Len(statements.parts) = 1

(***************************************************************************)
(* process_multi_intent_command.  What processing one statement brings is  *)
(* an input: a ProcessedCommandResult (from process_command, or the one    *)
(* built for a command that fails validation), or an exception.            *)
(***************************************************************************)
MaxStatements == 3
MaxSuggestions == 2

SuggestionTexts == {"s1", "s2"}

\* ProcessedCommandResult: success and suggestions (Optional: None has
\* has_suggestions FALSE)
ProcessedCommandResults ==
    [success : BOOLEAN, has_suggestions : {TRUE},
     suggestions : UNION {[1..k -> SuggestionTexts] : k \in 0..MaxSuggestions}]
        \cup [success : BOOLEAN, has_suggestions : {FALSE}, suggestions : {<<>>}]

Raises == [raises |-> TRUE]

StatementOutcomes == ProcessedCommandResults \cup {Raises}

\* the MultiIntentResult of the except branch
ErrorResult ==
    [done |-> TRUE, success |-> FALSE, results |-> <<>>,
     message |-> [text |-> "Error processing multiple intents in your request", done |-> 0, of |-> 0],
     suggestions |-> <<"Try separating your requests", "Ask one thing at a time">>,
     follow_up_required |-> FALSE]

\* combined_suggestions after the loop over results from index k on
RECURSIVE combined_suggestions(_, _)
combined_suggestions(results, k) ==
    IF k > Len(results) THEN <<>>
    ELSE (IF results[k].has_suggestions /\ results[k].suggestions # <<>>
          THEN results[k].suggestions ELSE <<>>)
             \o combined_suggestions(results, k + 1)

\* combined_suggestions[:5]
FirstFive(seq) == SubSeq(seq, 1, IF Len(seq) < 5 THEN Len(seq) ELSE 5)

\* the same aggregation without the limit on the suggestions
aggregate_results_Unlimited(results) ==
    The({[done |-> TRUE, success |-> all_successful, results |-> results,
          message |-> [text |-> IF all_successful THEN "Successfully processed"
                                ELSE "Some operations had issues",
                       done |-> Cardinality({i \in 1..Len(results) : results[i].success}),
                       of |-> Len(results)],
          suggestions |-> combined_suggestions(results, 1),
          follow_up_required |-> ~all_successful] :
            all_successful \in {\A i \in 1..Len(results) : results[i].success}})

\* process_multi_intent_command: "Aggregate results" to the return
aggregate_results(results) ==
    The({[done |-> TRUE, success |-> all_successful, results |-> results,
          message |-> [text |-> IF all_successful THEN "Successfully processed"
                                ELSE "Some operations had issues",
                       done |-> Cardinality({i \in 1..Len(results) : results[i].success}),
                       of |-> Len(results)],
          suggestions |-> FirstFive(combined_suggestions(results, 1)),
          follow_up_required |-> ~all_successful] :
            all_successful \in {\A i \in 1..Len(results) : results[i].success}})

\* _process_single_intent for the outcome of the one command
process_single_intent(outcome) ==
    IF outcome = Raises THEN ErrorResult
    ELSE [done |-> TRUE, success |-> outcome.success, results |-> <<outcome>>,
          message |-> [text |-> "processed_result.message", done |-> 0, of |-> 0],
          suggestions |-> outcome.suggestions,
          follow_up_required |-> FALSE]

\* process_multi_intent_command for a command of Len(os) statements; an
\* exception in a statement is caught by a handler that builds a
\* ProcessedCommandResult with intent=None, which the model type refuses,
\* so the except branch of the method answers
process_multi_intent_command(os) ==
    IF Len(os) = 1 THEN process_single_intent(os[1])
    ELSE IF \E i \in 1..Len(os) : os[i] = Raises THEN ErrorResult
    ELSE aggregate_results(os)

ProcessMultiIntentCommand ==
    /\ ~aggregate.done
    /\ aggregate' = process_multi_intent_command(outcomes)
    /\ UNCHANGED <<text, classification, cohere, statements, outcomes, taskVars, auxVars>>
    /\ UNCHANGED confVars
    /\ UNCHANGED convVars

NextAggregate == ProcessMultiIntentCommand

InitAggregate ==
    /\ text = <<>>
    /\ classification = NoResult
    /\ cohere = "none"
    /\ statements = NotDecomposed
    /\ outcomes \in UNION {[1..n -> StatementOutcomes] : n \in 1..MaxStatements}
    /\ aggregate = NotProcessed
    /\ InitTasks
    /\ InitAux
    /\ InitStore
    /\ InitConversations

SpecAggregate == InitAggregate /\ [][NextAggregate]_vars

(***************************************************************************)
(* C13: for the per-statement results r1..rn of a multi-intent command the *)
(* aggregate result has success equal to the conjunction of the ri.success *)
(* and suggestions equal to the first five of the ri suggestions           *)
(* concatenated in execution order.                                        *)
(***************************************************************************)
RECURSIVE AllSuggestions(_)
AllSuggestions(rs) ==
    IF rs = <<>> THEN <<>> ELSE Head(rs).suggestions \o AllSuggestions(Tail(rs))

C13_AggregateOfResults ==
    (aggregate.done /\ Len(aggregate.results) >= 2) =>
        /\ aggregate.results = outcomes
        /\ aggregate.success = (\A i \in 1..Len(outcomes) : outcomes[i].success)
        /\ Len(aggregate.suggestions) <= 5
        /\ \A k \in 1..5 :
              k <= Len(AllSuggestions(outcomes)) =>
                 /\ k <= Len(aggregate.suggestions)
                 /\ aggregate.suggestions[k] = AllSuggestions(outcomes)[k]

\* three results with six suggestions between them, one of them a failure
C13_Witness ==
    /\ aggregate.done
    /\ Len(aggregate.results) = 3
    /\ Len(AllSuggestions(outcomes)) > 5
    /\ Len(aggregate.suggestions) = 5
    /\ ~aggregate.success
    /\ \E i \in 1..3 : outcomes[i].success

(***************************************************************************)
(* The workflow called by one caller at a time.                            *)
(***************************************************************************)
SessionSteps == {1, SessionTTL}

storeVars == <<requests, pending_confirmations, processed, last>>

\* the ids a caller can pass: None, one handed out earlier, or a made-up one
CallableConversationIds == (1..issued) \cup {NoConversationId, UnknownConversationId}

\* number of messages the sessions with an id in ids hold
RECURSIVE StoredMessages(_, _)
StoredMessages(c, ids) ==
    IF ids = {} THEN 0
    ELSE LET id == CHOOSE k \in ids : TRUE
         IN  Len(c[id].messages) + StoredMessages(c, ids \ {id})

\* room left for what the call stores
Fits(r) ==
    /\ r.issued <= MaxConversations
    /\ StoredMessages(r.conversations, DOMAIN r.conversations) <= MaxMessages

Call(op, conversation_id, outcome) ==
    \E r \in {outcome} :
        /\ Fits(r)
        /\ conversations' = r.conversations
        /\ issued' = r.issued
        /\ reply' = [op |-> op, arg |-> conversation_id,
                     conversation_id |-> r.reply.conversation_id,
                     response |-> r.reply.response, intent |-> r.reply.intent]
        /\ executed' = r.executed
        /\ UNCHANGED <<now, ticks, threads>>
        /\ UNCHANGED storeVars
        /\ UNCHANGED textVars

ProcessChatMessage ==
    \E id \in CallableConversationIds, u \in Users, m \in Utterances, env \in Environments :
        Call("process_chat_message", id,
             process_chat_message(conversations, issued, id, u, m, env))

ProcessClarificationResponse ==
    \E id \in CallableConversationIds, u \in Users, m \in Utterances, env \in Environments :
        Call("process_clarification_response", id,
             process_clarification_response(conversations, issued, id, u, m, env))

StartConfirmationFlow ==
    \E id \in CallableConversationIds, a \in ActionData :
        Call("start_confirmation_flow", id,
             start_confirmation_flow(conversations, issued, id, a))

HandleConfirmationResponse ==
    \E id \in CallableConversationIds, u \in Users, m \in Utterances, env \in Environments :
        Call("handle_confirmation_response", id,
             handle_confirmation_response(conversations, issued, id, u, m, env))

\* direct calls of the store
CreateConversation ==
    \E u \in Users :
        Call("create_conversation", NoConversationId,
             Outcome_(create_conversation(conversations, issued + 1, u), issued + 1,
                      ChatResponse(issued + 1, "id", ""), {}))

GetConversation ==
    \E id \in CallableConversationIds :
        LET g == get_conversation(conversations, id)
        IN  Call("get_conversation", id,
                 Outcome_(g.conversations, issued,
                          ChatResponse(id, IF g.found THEN "conversation" ELSE "None", ""), {}))

EndConversation ==
    \E id \in DOMAIN conversations :
        Call("end_conversation", id,
             Outcome_(end_conversation(conversations, id), issued,
                      ChatResponse(id, "True", ""), {}))

CleanupExpiredConversations ==
    /\ \E id \in DOMAIN conversations : now > conversations[id].expires_at
    /\ Call("cleanup_expired_conversations", NoConversationId,
            Outcome_(cleanup_expired_conversations(conversations), issued,
                     ChatResponse(NoConversationId, "count", ""), {}))

\* time passes between two calls
SessionTick ==
    \E d \in SessionSteps :
        /\ ticks < MaxSessionTicks
        /\ now' = now + d
        /\ ticks' = ticks + 1
        /\ reply' = NoReply
        /\ executed' = {}
        /\ UNCHANGED <<conversations, issued, threads>>
        /\ UNCHANGED storeVars
        /\ UNCHANGED textVars

NextWorkflow ==
    \/ ProcessChatMessage
    \/ ProcessClarificationResponse
    \/ StartConfirmationFlow
    \/ HandleConfirmationResponse
    \/ CreateConversation
    \/ EndConversation

InitWorkflow == InitStore /\ InitText /\ InitConversations

\* the four workflow methods on sessions that are created and ended
SpecWorkflow == InitWorkflow /\ [][NextWorkflow]_vars

NextSessions ==
    \/ ProcessChatMessage
    \/ CreateConversation
    \/ GetConversation
    \/ EndConversation
    \/ CleanupExpiredConversations
    \/ SessionTick

InitSessions == InitStore /\ InitText /\ InitConversations

\* sessions that age: the store's methods and process_chat_message over time
SpecSessions == InitSessions /\ [][NextSessions]_vars

(***************************************************************************)
(* The workflow called from two request threads.  chat_with_ai_assistant   *)
(* and confirm_chat_action are plain functions, which the server runs in   *)
(* worker threads; neither the workflow nor the store takes a lock.  A     *)
(* step of a thread is one call of a store method, which runs as a whole;  *)
(* between two steps the other thread may run.                             *)
(***************************************************************************)
MaxThreadMessages == 5

\* what a thread holds before the pipeline or the confirmation has answered
NoAnswer == [response |-> ""]

Request(op, pc, conversation_id, message) ==
    [pc |-> pc, op |-> op, arg |-> conversation_id, conversation_id |-> conversation_id,
     message |-> message, result |-> NoAnswer]

InFlight == {t \in Threads : threads[t].pc # "idle"}

\* room for the two messages of one more turn
RoomForTurn ==
    StoredMessages(conversations, DOMAIN conversations) + 2 * Cardinality(InFlight) + 2
        <= MaxThreadMessages

ThreadStep(t, thread, c, n) ==
    /\ threads' = [threads EXCEPT ![t] = thread]
    /\ conversations' = c
    /\ issued' = n
    /\ UNCHANGED <<now, ticks>>
    /\ UNCHANGED storeVars
    /\ UNCHANGED textVars

\* the thread returns its ChatResponse
Return(t, chat) ==
    reply' = [op |-> threads[t].op, arg |-> threads[t].arg,
              conversation_id |-> chat.conversation_id,
              response |-> chat.response, intent |-> chat.intent]

\* POST /chat reaches process_chat_message
ReceiveChat ==
    \E t \in Threads, id \in DOMAIN conversations, m \in Utterances :
        /\ threads[t].pc = "idle"
        /\ RoomForTurn
        /\ ThreadStep(t, Request("process_chat_message", "resolve", id, m),
                      conversations, issued)
        /\ UNCHANGED <<reply, executed>>

\* POST /chat/confirm reaches handle_confirmation_response
ReceiveConfirm ==
    \E t \in Threads, id \in DOMAIN conversations, m \in Utterances :
        /\ threads[t].pc = "idle"
        /\ RoomForTurn
        /\ ThreadStep(t, Request("handle_confirmation_response", "get_pending", id, m),
                      conversations, issued)
        /\ UNCHANGED <<reply, executed>>

\* process_chat_message, step 1
ChatResolve ==
    \E t \in Threads, u \in Users :
        /\ threads[t].pc = "resolve"
        /\ \E r \in {resolve_conversation(conversations, issued, threads[t].conversation_id, u)} :
              ThreadStep(t, [threads[t] EXCEPT !.pc = "add_user", !.conversation_id = r.id],
                         r.conversations, r.issued)
        /\ UNCHANGED <<reply, executed>>

\* add_message(conversation_id, "user", user_message)
ChatAddUser ==
    \E t \in Threads :
        /\ threads[t].pc = "add_user"
        /\ ThreadStep(t, [threads[t] EXCEPT !.pc = "step"],
                      add_message(conversations, threads[t].conversation_id, "user",
                                  threads[t].message),
                      issued)
        /\ UNCHANGED <<reply, executed>>

\* steps 2 and 3: get_pending_action and the orchestration agent
ChatStep ==
    \E t \in Threads, env \in Environments :
        /\ threads[t].pc = "step"
        /\ \E result \in {conversation_step(
                              get_pending_action(conversations, threads[t].conversation_id),
                              threads[t].message, env)} :
              /\ ThreadStep(t, [threads[t] EXCEPT !.pc = "update_state", !.result = result],
                            conversations, issued)
              /\ executed' = IF result.executed THEN {threads[t].message} ELSE {}
        /\ UNCHANGED reply

\* step 5: update_conversation_state
ChatUpdateState ==
    \E t \in Threads :
        /\ threads[t].pc = "update_state"
        /\ ThreadStep(t, [threads[t] EXCEPT !.pc = "add_assistant"],
                      update_conversation_state(conversations, threads[t].conversation_id,
                                                FollowUpState(threads[t].result)),
                      issued)
        /\ UNCHANGED <<reply, executed>>

\* add_message(conversation_id, "assistant", response_text) and the return
ChatAddAssistant ==
    \E t \in Threads :
        /\ threads[t].pc = "add_assistant"
        /\ ThreadStep(t, IdleThread,
                      add_message(conversations, threads[t].conversation_id, "assistant",
                                  threads[t].result.response),
                      issued)
        /\ Return(t, chat_response(threads[t].conversation_id, threads[t].result))
        /\ UNCHANGED executed

\* handle_confirmation_response: get_pending_action and the reading of the
\* user's words; without a pending action the call goes on in process_chat_message
ConfirmGetPending ==
    \E t \in Threads :
        /\ threads[t].pc = "get_pending"
        /\ \E pending_action \in {get_pending_action(conversations, threads[t].conversation_id)},
              reading \in {ConfirmationReadings[threads[t].message]} :
              ThreadStep(t,
                         IF pending_action = NoAction
                         THEN [threads[t] EXCEPT !.pc = "resolve"]
                         ELSE [threads[t] EXCEPT
                                  !.pc = IF reading = "unclear" THEN "confirm_add_user"
                                         ELSE "clear",
                                  !.result = ConfirmationReply(reading, pending_action)],
                         conversations, issued)
        /\ UNCHANGED <<reply, executed>>

\* clear_pending_action
ConfirmClear ==
    \E t \in Threads :
        /\ threads[t].pc = "clear"
        /\ ThreadStep(t, [threads[t] EXCEPT !.pc = "activate"],
                      clear_pending_action(conversations, threads[t].conversation_id),
                      issued)
        /\ UNCHANGED <<reply, executed>>

\* update_conversation_state(conversation_id, "ACTIVE")
ConfirmActivate ==
    \E t \in Threads :
        /\ threads[t].pc = "activate"
        /\ ThreadStep(t, [threads[t] EXCEPT !.pc = "confirm_add_user"],
                      update_conversation_state(conversations, threads[t].conversation_id,
                                                "ACTIVE"),
                      issued)
        /\ UNCHANGED <<reply, executed>>

ConfirmAddUser ==
    \E t \in Threads :
        /\ threads[t].pc = "confirm_add_user"
        /\ ThreadStep(t, [threads[t] EXCEPT !.pc = "confirm_add_assistant"],
                      add_message(conversations, threads[t].conversation_id, "user",
                                  threads[t].message),
                      issued)
        /\ UNCHANGED <<reply, executed>>

ConfirmAddAssistant ==
    \E t \in Threads :
        /\ threads[t].pc = "confirm_add_assistant"
        /\ ThreadStep(t, IdleThread,
                      add_message(conversations, threads[t].conversation_id, "assistant",
                                  threads[t].result.response),
                      issued)
        /\ Return(t, ChatResponse(threads[t].conversation_id, threads[t].result.response,
                                  threads[t].result.intent))
        /\ UNCHANGED executed

NextThreads ==
    \/ ReceiveChat
    \/ ReceiveConfirm
    \/ ChatResolve
    \/ ChatAddUser
    \/ ChatStep
    \/ ChatUpdateState
    \/ ChatAddAssistant
    \/ ConfirmGetPending
    \/ ConfirmClear
    \/ ConfirmActivate
    \/ ConfirmAddUser
    \/ ConfirmAddAssistant

\* the sessions the threads find: one that create_conversation has just
\* stored, or one in which start_confirmation_flow has asked its question
OpenSessions ==
    {create_conversation(<<>>, 1, u) : u \in Users}
        \cup {start_confirmation_flow(create_conversation(<<>>, 1, u), 1, 1, a).conversations :
                  u \in Users, a \in ActionData}

InitThreads ==
    /\ InitStore
    /\ InitText
    /\ conversations \in OpenSessions
    /\ issued = 1
    /\ reply = NoReply
    /\ executed = {}
    /\ threads = [t \in Threads |-> IdleThread]

SpecThreads == InitThreads /\ [][NextThreads]_vars

(***************************************************************************)
(* C1: in every reachable state, a stored conversation whose pending       *)
(* action is None has state ACTIVE, whatever sequence of                   *)
(* process_chat_message, process_clarification_response,                   *)
(* start_confirmation_flow and handle_confirmation_response calls led      *)
(* there.                                                                  *)
(***************************************************************************)
C1_NoPendingActionIsActive ==
    \A id \in DOMAIN conversations :
        conversations[id].pending_action = NoAction => conversations[id].state = "ACTIVE"

\* a confirmation flow was started and then settled: the pending action is
\* gone again and the conversation is back to ACTIVE
C1_Witness ==
    /\ reply.op \in {"handle_confirmation_response", "process_clarification_response"}
    /\ reply.conversation_id \in DOMAIN conversations
    /\ Len(conversations[reply.conversation_id].messages) = 3
    /\ conversations[reply.conversation_id].messages[1].content
          = ConfirmationMessage("delete all tasks")
    /\ conversations[reply.conversation_id].pending_action = NoAction
    /\ conversations[reply.conversation_id].state = "ACTIVE"

(***************************************************************************)
(* C6: a session is kept and returned by get_conversation at every time up *)
(* to created_at + 24h unless end_conversation is called for it, and a     *)
(* get_conversation after that time returns None and removes the record.   *)
(***************************************************************************)
C6_SessionLifetime ==
    [][\A id \in DOMAIN conversations :
          LET deadline == conversations[id].created_at + SessionTTL
              ended    == reply'.op = "end_conversation" /\ reply'.arg = id
              got      == reply'.op = "get_conversation" /\ reply'.arg = id
          IN  /\ (now' <= deadline /\ ~ended) =>
                    /\ id \in DOMAIN conversations'
                    /\ conversations'[id].created_at = conversations[id].created_at
              /\ (got /\ now <= deadline) =>
                    /\ reply'.response = "conversation"
                    /\ conversations' = conversations
              /\ (got /\ now > deadline) =>
                    /\ reply'.response = "None"
                    /\ id \notin DOMAIN conversations']_vars

\* get_conversation has just returned a session at the last minute of its life
C6_Witness ==
    /\ reply.op = "get_conversation"
    /\ reply.response = "conversation"
    /\ reply.arg \in DOMAIN conversations
    /\ now = conversations[reply.arg].created_at + SessionTTL

(***************************************************************************)
(* C7: process_chat_message called with a conversation_id that is unknown  *)
(* or expired does not fail: it creates a fresh session under a new id     *)
(* that differs from the supplied one, processes the message in it (the    *)
(* session is ACTIVE and holds the user message and the answer), and       *)
(* returns the new id with the answer.                                     *)
(***************************************************************************)
C7_UnknownIdStartsFreshSession ==
    [][(/\ reply'.op = "process_chat_message"
        /\ reply'.arg # NoConversationId
        /\ \/ reply'.arg \notin DOMAIN conversations
           \/ now > conversations[reply'.arg].expires_at)
       => LET new == reply'.conversation_id
          IN  /\ reply'.intent # Raised("TypeError").intent
              /\ new # reply'.arg
              /\ new = issued + 1 /\ issued' = new
              /\ reply'.arg \notin DOMAIN conversations'
              /\ new \in DOMAIN conversations'
              /\ conversations'[new].state = "ACTIVE"
              /\ conversations'[new].created_at = now
              /\ Len(conversations'[new].messages) = 2
              /\ conversations'[new].messages[1].role = "user"
              /\ conversations'[new].messages[1].content \in Utterances
              /\ conversations'[new].messages[2].role = "assistant"
              /\ reply'.response = conversations'[new].messages[2].content]_vars

\* a call with the id of a session that had expired was answered from a new session
C7_Witness ==
    /\ reply.op = "process_chat_message"
    /\ reply.arg \in 1..issued
    /\ reply.arg \notin DOMAIN conversations
    /\ reply.conversation_id = issued
    /\ reply.conversation_id # reply.arg
    /\ reply.conversation_id \in DOMAIN conversations
    /\ now > SessionTTL
    /\ reply.intent # Raised("TypeError").intent

(***************************************************************************)
(* C8: two message-handling calls running concurrently on one conversation *)
(* are serialized: once both have returned, the session is as if the turns *)
(* had run one after the other, so every user message in its history is    *)
(* directly followed by an assistant message and a pending action has been *)
(* confirmed at most once.                                                 *)
(***************************************************************************)
C8_ConcurrentTurnsAreSerialized ==
    InFlight = {} =>
        \A id \in DOMAIN conversations :
            LET messages == conversations[id].messages
            IN  /\ \A i \in 1..Len(messages) :
                      messages[i].role = "user" =>
                          /\ i < Len(messages)
                          /\ messages[i + 1].role = "assistant"
                /\ Cardinality({i \in 1..Len(messages) :
                                   messages[i].content \in
                                       {ConfirmedMessage(a.action) : a \in ActionData}})
                       <= Cardinality({i \in 1..Len(messages) :
                                          messages[i].content \in
                                              {ConfirmationMessage(a.action) : a \in ActionData}})

(***************************************************************************)
(* C9: for the fresh message "Delete all my tasks" of an authenticated     *)
(* user in a conversation without pending action, validate_task_operation  *)
(* reports requires_confirmation, the response asks for a yes/no           *)
(* confirmation, and execute_command is not called.                        *)
(***************************************************************************)
BulkDeletion == "Delete all my tasks"

\* the replies of the package that ask the user to confirm
ConfirmationPrompts ==
    {ConfirmationMessage(a.action) : a \in ActionData}
        \cup {"Please confirm or deny the action.",
              "I didn't understand your response. Please respond with 'yes' to confirm or 'no' to cancel."}

C9_BulkDeletionAsksConfirmation ==
    [][(/\ reply'.op = "process_chat_message"
        /\ reply'.arg = NoConversationId
        /\ reply'.conversation_id \in DOMAIN conversations'
        /\ conversations'[reply'.conversation_id].messages[1].content = BulkDeletion
        /\ reply'.response # "You need to be authenticated to use this service.")
       => /\ validate_task_operation(process_input(Chars[BulkDeletion], "DELETE_TASK")).requires_confirmation
          /\ reply'.response \in ConfirmationPrompts
          /\ executed' = {}]_vars

(***************************************************************************)
(* C14: no fault of a pipeline stage propagates out of process_chat_message:*)
(* every call returns a ChatResponse to the caller; none raises.           *)
(***************************************************************************)
C14_NoFaultPropagates ==
    reply.op = "process_chat_message" =>
        /\ reply.intent # Raised("TypeError").intent
        /\ reply.conversation_id \in DOMAIN conversations

(***************************************************************************)
(* C15: a turn whose auth token fails validation executes no command and   *)
(* is answered with the authentication error, whether the message is       *)
(* fresh, replies to a pending confirmation or replies to a clarification. *)
(***************************************************************************)
AuthenticationError == "You need to be authenticated to use this service."

\* the turns a caller whose token get_user_info rejects can make in this state
UnauthenticatedTurns ==
    UNION {{process_chat_message(conversations, issued, id, u, m, env),
            process_clarification_response(conversations, issued, id, u, m, env),
            handle_confirmation_response(conversations, issued, id, u, m, env)} :
               id \in CallableConversationIds, u \in Users, m \in Utterances,
               env \in {e \in Environments : ~e.authenticated}}

C15_FailedAuthExecutesNothing ==
    \A turn \in UnauthenticatedTurns :
        /\ turn.executed = {}
        /\ turn.reply.response = AuthenticationError

(***************************************************************************)
(* The task service called by two users.                                   *)
(***************************************************************************)
\* the ids a caller can pass: one handed out earlier, or a made-up one
CallableTaskIds == (1..task_ids) \cup {UnknownTaskId}

TaskCall(op, user_id, task_id, returned) ==
    /\ tasks' = returned.tasks
    /\ task_call' = [op |-> op, user_id |-> user_id, task_id |-> task_id,
                     rows |-> returned.rows, ok |-> returned.ok]
    /\ UNCHANGED <<text, classification, cohere, statements, outcomes, aggregate>>
    /\ UNCHANGED auxVars
    /\ UNCHANGED confVars
    /\ UNCHANGED convVars

GetTasksByUser ==
    \E u \in TaskUsers :
        /\ TaskCall("get_tasks_by_user", u, UnknownTaskId, get_tasks_by_user(tasks, u))
        /\ UNCHANGED task_ids

CreateTaskForUser ==
    \E u \in TaskUsers, title \in Titles :
        /\ task_ids < MaxTasks
        /\ task_ids' = task_ids + 1
        /\ TaskCall("create_task_for_user", u, task_ids + 1,
                    create_task_for_user(tasks, task_ids + 1, u, title))

GetTaskByIdAndUser ==
    \E u \in TaskUsers, id \in CallableTaskIds :
        /\ TaskCall("get_task_by_id_and_user", u, id, get_task_by_id_and_user(tasks, id, u))
        /\ UNCHANGED task_ids

UpdateTaskForUser ==
    \E u \in TaskUsers, id \in CallableTaskIds, update \in Updates :
        /\ TaskCall("update_task_for_user", u, id, update_task_for_user(tasks, id, u, update))
        /\ UNCHANGED task_ids

DeleteTaskForUser ==
    \E u \in TaskUsers, id \in CallableTaskIds :
        /\ TaskCall("delete_task_for_user", u, id, delete_task_for_user(tasks, id, u))
        /\ UNCHANGED task_ids

ToggleTaskCompletion ==
    \E u \in TaskUsers, id \in CallableTaskIds, completed \in BOOLEAN :
        /\ TaskCall("toggle_task_completion", u, id,
                    toggle_task_completion(tasks, id, u, completed))
        /\ UNCHANGED task_ids

NextTasks ==
    \/ GetTasksByUser
    \/ CreateTaskForUser
    \/ GetTaskByIdAndUser
    \/ UpdateTaskForUser
    \/ DeleteTaskForUser
    \/ ToggleTaskCompletion

InitTaskService == InitStore /\ InitText /\ InitConversations

SpecTasks == InitTaskService /\ [][NextTasks]_vars

(***************************************************************************)
(* C16: task isolation.  A listing for a user holds exactly the rows that  *)
(* user owns, so never a row of another user; and a get, update, delete or *)
(* toggle by a user on a task id whose row another user owns returns not   *)
(* found (None, or False for delete) and leaves the table as it was.       *)
(***************************************************************************)
ByTaskId == {"get_task_by_id_and_user", "update_task_for_user",
             "delete_task_for_user", "toggle_task_completion"}

C16_TaskIsolation ==
    [][/\ task_call'.op = "get_tasks_by_user" =>
            /\ \A row \in task_call'.rows : row.user_id = task_call'.user_id
            /\ {row.id : row \in task_call'.rows}
                  = {id \in DOMAIN tasks : tasks[id].user_id = task_call'.user_id}
       /\ (/\ task_call'.op \in ByTaskId
           /\ task_call'.task_id \in DOMAIN tasks
           /\ tasks[task_call'.task_id].user_id # task_call'.user_id)
          => /\ ~task_call'.ok
             /\ task_call'.rows = {}
             /\ tasks' = tasks]_vars

\* B asked to delete a task of A while owning a task of their own; A's row is still there
C16_Witness ==
    /\ task_call.op = "delete_task_for_user"
    /\ task_call.user_id = "B"
    /\ task_call.task_id \in DOMAIN tasks
    /\ tasks[task_call.task_id].user_id = "A"
    /\ ~task_call.ok
    /\ \E id \in DOMAIN tasks : tasks[id].user_id = "B"

(***************************************************************************)
(* C17: confirm, reject, get_confirmation_status and process_confirmed,    *)
(* called with the id of a stored record whose expires_at has passed,      *)
(* remove the record from the store and report not found.                  *)
(***************************************************************************)
Lookups == {"confirm", "reject", "status", "process"}

C17_ExpiredLookupPurges ==
    [][(/\ last'.op \in Lookups
        /\ last'.id \in pending_confirmations
        /\ is_expired(requests[last'.id]))
       => /\ ~last'.ok
          /\ last'.id \notin pending_confirmations']_vars

(***************************************************************************)
(* Sessions that age while they are read and written through the store.    *)
(***************************************************************************)
\* the ids of the sessions opened so far
SessionIds == 1..issued

\* the bool a store method returns for the id
Stored(id) == IF id \in DOMAIN conversations THEN "True" ELSE "False"

AddMessage ==
    \E id \in SessionIds, m \in {"what?"} :
        Call("add_message", id,
             Outcome_(add_message(conversations, id, "user", m), issued,
                      ChatResponse(id, Stored(id), ""), {}))

SetPendingAction ==
    \E id \in SessionIds, action \in PendingActions :
        Call("set_pending_action", id,
             Outcome_(set_pending_action(conversations, id, action), issued,
                      ChatResponse(id, Stored(id), ""), {}))

GetPendingAction ==
    \E id \in SessionIds :
        Call("get_pending_action", id,
             Outcome_(conversations, issued,
                      ChatResponse(id, IF get_pending_action(conversations, id) = NoAction
                                       THEN "None" ELSE "pending_action", ""), {}))

UpdateConversationState ==
    \E id \in SessionIds :
        Call("update_conversation_state", id,
             Outcome_(update_conversation_state(conversations, id, "ACTIVE"),
                      issued, ChatResponse(id, Stored(id), ""), {}))

NextExpiry ==
    \/ AddMessage
    \/ SetPendingAction
    \/ GetPendingAction
    \/ UpdateConversationState
    \/ HandleConfirmationResponse
    \/ SessionTick

\* one session, opened at time 0, with or without a confirmation asked
InitExpiry == InitThreads

SpecExpiry == InitExpiry /\ [][NextExpiry]_vars

(***************************************************************************)
(* C18: once now > expires_at a session is excluded from every lookup: a   *)
(* call with its id behaves as with an unknown id.  add_message,           *)
(* set_pending_action and update_conversation_state return False and write *)
(* nothing, get_pending_action returns None, and                           *)
(* handle_confirmation_response finds no pending action and answers from a *)
(* fresh session, adding nothing to the expired one.                       *)
(***************************************************************************)
Writers == {"add_message", "set_pending_action", "update_conversation_state"}

C18_ExpiredIsUnknown ==
    [][(/\ reply'.arg \in DOMAIN conversations
        /\ now > conversations[reply'.arg].expires_at)
       => /\ reply'.op \in Writers =>
                /\ reply'.response = "False"
                /\ conversations' \in {conversations, end_conversation(conversations, reply'.arg)}
          /\ reply'.op = "get_pending_action" => reply'.response = "None"
          /\ reply'.op = "handle_confirmation_response" =>
                /\ reply'.conversation_id # reply'.arg
                /\ reply'.arg \notin DOMAIN conversations']_vars

(***************************************************************************)
(* C19: a turn of process_chat_message, process_clarification_response or  *)
(* handle_confirmation_response on a live conversation (stored and not     *)
(* expired) appends exactly two entries to that session's history, the     *)
(* user message and then the assistant message, on every branch, the       *)
(* error branches included; the earlier entries stay as they were and no   *)
(* other session's history changes.                                        *)
(***************************************************************************)
Turns == {"process_chat_message", "process_clarification_response",
          "handle_confirmation_response"}

\* the replies of the turns whose ChatResponse(...) failed
ErrorIntents == {Raised("TypeError").intent, "clarification_error"}

KeywordReading(m) ==
    IF \E w \in AffirmativeWords : Contains(lower(Chars[m]), w) THEN "affirmative"
    ELSE IF \E w \in DenyWords : Contains(lower(Chars[m]), w) THEN "negative"
    ELSE "other"

C20_PendingReplyByKeyword ==
    [][(/\ reply'.op \in {"process_chat_message", "handle_confirmation_response"}
        /\ reply'.arg \in DOMAIN conversations
        /\ ~(now > conversations[reply'.arg].expires_at)
        /\ conversations[reply'.arg].pending_action # NoAction
        /\ reply'.response # AuthenticationError)
       => LET id      == reply'.arg
              pending == conversations[id].pending_action
              m       == conversations'[id].messages[Len(conversations[id].messages) + 1].content
          IN  /\ KeywordReading(m) = "affirmative" => executed' = {pending.action}
              /\ KeywordReading(m) = "negative" =>
                    /\ executed' = {}
                    /\ conversations'[id].pending_action = NoAction
              /\ KeywordReading(m) = "other" =>
                    /\ executed' = {}
                    /\ conversations'[id].pending_action = pending
                    /\ reply'.response \in ConfirmationPrompts]_vars

(***************************************************************************)
(* C21: while a message is being handled no session state is mutated       *)
(* before processing has finished: a step that a request thread takes      *)
(* before the orchestration agent has answered leaves every session as it  *)
(* was, so a turn aborted at that point has changed nothing.               *)
(***************************************************************************)
\* the positions of a thread whose message has not been processed yet
BeforeProcessed == {"resolve", "add_user", "step", "get_pending"}

C21_NoMutationBeforeCommit ==
    [][\A t \in Threads :
          (threads[t].pc \in BeforeProcessed /\ threads'[t] # threads[t])
              => conversations' = conversations]_vars

(***************************************************************************)
(* Both stores with their background sweeps run at arbitrary points.       *)
(***************************************************************************)
NextSweeps ==
    \/ CreateConfirmation
    \/ ConfirmAction
    \/ RejectAction
    \/ GetConfirmationStatus
    \/ ProcessConfirmedAction
    \/ CleanupExpiredConfirmations
    \/ CreateConversation
    \/ GetConversation
    \/ CleanupExpiredConversations
    \/ SessionTick

InitSweeps == InitStore /\ InitText /\ InitConversations

SpecSweeps == InitSweeps /\ [][NextSweeps]_vars

(***************************************************************************)
(* C22: a sweep removes exactly the records that are expired at that       *)
(* moment, and no later lookup can tell that it ran: for every id, each of *)
(* confirm, reject, status, process_confirmed and get_conversation returns *)
(* after the sweep what it would have returned without it, and leaves      *)
(* stores that differ only in expired records, so the same holds for every *)
(* call after that.                                                        *)
(***************************************************************************)
\* the four lookups of the confirmation service for an id, in the current store
ConfirmationLookups(id) ==
    <<confirm_action(id), reject_action(id), get_confirmation_status(id),
      process_confirmed_action(id)>>

\* a store of the confirmation service without its expired records
Unexpired(r) ==
    [requests |-> r.requests,
     pending  |-> {id \in r.pending : ~is_expired(r.requests[id])}]

\* the sessions of a store that have not expired
Live(c) == [k \in {j \in DOMAIN c : ~(now > c[j].expires_at)} |-> c[k]]

C22_SweepsAreUnobservable ==
    [][/\ (last'.op = "cleanup" /\ pending_confirmations' # pending_confirmations)
          => /\ requests' = requests
             /\ pending_confirmations'
                   = {id \in pending_confirmations : ~is_expired(requests[id])}
             /\ \A id \in ConfIds, k \in 1..4 :
                   /\ (ConfirmationLookups(id)[k].ok)' = ConfirmationLookups(id)[k].ok
                   /\ Unexpired(ConfirmationLookups(id)[k])'
                         = Unexpired(ConfirmationLookups(id)[k])
       /\ (reply'.op = "cleanup_expired_conversations" /\ conversations' # conversations)
          => /\ conversations' = Live(conversations)
             /\ \A id \in CallableConversationIds :
                   /\ get_conversation(conversations', id).found
                         = get_conversation(conversations, id).found
                   /\ get_conversation(conversations, id).found
                         => conversations'[id] = conversations[id]
                   /\ Live(get_conversation(conversations', id).conversations)
                         = Live(get_conversation(conversations, id).conversations)]_vars

\* both sweeps have run: an expired request is gone from the store after the
\* sweep of the confirmations, and a get of a swept session returned None
C22_Witness ==
    /\ last.op = "cleanup"
    /\ \E id \in ConfIds :
          /\ requests[id].exists
          /\ is_expired(requests[id])
          /\ requests[id].is_confirmed
          /\ id \notin pending_confirmations
          /\ processed[id] = 0
    /\ reply.op = "get_conversation"
    /\ reply.response = "None"
    /\ reply.arg \in 1..issued

(***************************************************************************)
(* EntityExtractor._rule_based_extract in full: every assignment to the    *)
(* entities dict, in the order the method makes them.                      *)
(***************************************************************************)
W_the == <<"t","h","e">>
W_of == <<"o","f">>
W_as == <<"a","s">>

UpdateVerbs == <<<<"u","p","d","a","t","e">>, <<"c","h","a","n","g","e">>, <<"m","o","d","i","f","y">>>>

\* (?:title|name), (?:description), (?:priority), (?:due date|date) of
\* update_patterns[2..5]
AttributeWords ==
    << <<<<"t","i","t","l","e">>, <<"n","a","m","e">>>>,
       <<<<"d","e","s","c","r","i","p","t","i","o","n">>>>,
       <<<<"p","r","i","o","r","i","t","y">>>>,
       <<<<"d","u","e"," ","d","a","t","e">>, <<"d","a","t","e">>>> >>

\* the positions a, a-1, ..., b in the order a greedy quantifier tries them
Descending(a, b) == [i \in 1..(a - b + 1) |-> a - i + 1]

\* end of the lazy group (.+?) that starts at g and is followed by (?:\.|$)
LastGroupEnd(t, g) ==
    SmallestOr0({e \in g..Len(t) :
        e = Len(t) \/ t[e + 1] = "." \/ (e + 1 = Len(t) /\ t[e + 1] = "\n")})

\* (.+?)(?:\.|$) can match from g
LastGroupValid(t, g) ==
    g >= 1 /\ g <= Len(t) /\ NoNewline(t, g, LastGroupEnd(t, g))

\* \s+ at k followed by (.+?)(?:\.|$): the start of the group, 0 if none
AfterWsAny(t, k) ==
    IF k >= 1 /\ k <= Len(t) /\ t[k] \in Whitespace
    THEN LargestOr0({g \in (k + 1)..SkipWhitespace(t, k) : LastGroupValid(t, g)})
    ELSE 0

\* \s+(?:to|as)\s+(.+?)(?:\.|$) at y: the start of the last group, 0 if none
ToAsTail(t, l, y) ==
    IF /\ y >= 1 /\ y <= Len(l) /\ l[y] \in Whitespace
       /\ (MatchesAt(l, W_to, SkipWhitespace(l, y)) \/ MatchesAt(l, W_as, SkipWhitespace(l, y)))
    THEN AfterWsAny(t, SkipWhitespace(l, y) + 2)
    ELSE 0

\* last index of the run of \w characters that starts at q (q - 1 if none)
RECURSIVE AttributeEnd(_, _)
AttributeEnd(l, q) == IF IsWordAt(l, q) THEN AttributeEnd(l, q + 1) ELSE q - 1

\* (?:the\s+)?(\w+) at q: the starts of the word in the order they are tried
AttributeStarts(l, q) ==
    (IF MatchesAt(l, W_the, q) /\ q + 3 <= Len(l) /\ l[q + 3] \in Whitespace
     THEN <<SkipWhitespace(l, q + 3)>> ELSE <<>>) \o <<q>>

\* first entry of cs that satisfies ok (given as a set of positions), 0 if none
FirstIn(cs, ok) ==
    IF \E i \in DOMAIN cs : cs[i] \in ok
    THEN cs[CHOOSE i \in DOMAIN cs : cs[i] \in ok /\ \A j \in 1..(i - 1) : cs[j] \notin ok]
    ELSE 0

\* update_patterns[1] with the verb ending just before p: its groups, <<>> if none
UpdatePattern1At(t, l, p) ==
    IF p <= Len(l) /\ l[p] \in Whitespace
    THEN The({IF w = 0 THEN <<>>
              ELSE <<SubSeq(t, w, AttributeEnd(l, w)),
                     SubSeq(t, ToAsTail(t, l, AttributeEnd(l, w) + 1),
                               LastGroupEnd(t, ToAsTail(t, l, AttributeEnd(l, w) + 1)))>> :
            w \in {FirstIn(AttributeStarts(l, SkipWhitespace(l, p)),
                           {x \in 1..Len(l) : IsWordAt(l, x)
                                /\ ToAsTail(t, l, AttributeEnd(l, x) + 1) # 0})}})
    ELSE <<>>

\* the lazy group that starts at x ends just before the first y from which
\* tail matches; least is its minimal length; 0 if there is none
LazyEnd(t, x, least, tailOk) ==
    SmallestOr0({y \in (x + least)..Len(t) : y \in tailOk /\ NoNewline(t, x, y - 1)})

\* \s+of\s+(?:task|the)\s+ at y: the position after (?:task|the), 0 if none
AfterOfTask(l, y) ==
    IF /\ y <= Len(l) /\ l[y] \in Whitespace
       /\ MatchesAt(l, W_of, SkipWhitespace(l, y))
       /\ SkipWhitespace(l, y) + 2 <= Len(l)
       /\ l[SkipWhitespace(l, y) + 2] \in Whitespace
    THEN The({IF MatchesAt(l, W_task, s) THEN s + 4
              ELSE IF MatchesAt(l, W_the, s) THEN s + 3 ELSE 0 :
                 s \in {SkipWhitespace(l, SkipWhitespace(l, y) + 2)}})
    ELSE 0

\* the starts of (.*?) after the \s+ at k, in the order they are tried
StartsAfterWs(l, k) ==
    IF k >= 1 /\ k <= Len(l) /\ l[k] \in Whitespace
    THEN Descending(SkipWhitespace(l, k), k + 1) ELSE <<>>

\* update_patterns[0] from the word that starts at w: <<start of group 2,
\* position after group 2>>, <<>> if it does not match
UpdatePattern0From(t, l, w) ==
    The({IF k = 0 THEN <<>>
         ELSE The({IF x = 0 THEN <<>> ELSE <<x, LazyEnd(t, x, 0, tailOk)>> :
                x \in {FirstIn(StartsAfterWs(l, k),
                               {x \in 1..(Len(l) + 1) : LazyEnd(t, x, 0, tailOk) # 0})}}) :
            k \in {IF IsWordAt(l, w) THEN AfterOfTask(l, AttributeEnd(l, w) + 1) ELSE 0},
            tailOk \in {{y \in 1..Len(l) : ToAsTail(t, l, y) # 0}}})

\* update_patterns[0] with the verb ending just before p: its groups, <<>> if none
UpdatePattern0At(t, l, p) ==
    IF p <= Len(l) /\ l[p] \in Whitespace
    THEN The({IF w = 0 THEN <<>>
              ELSE The({<<SubSeq(t, w, AttributeEnd(l, w)),
                          SubSeq(t, m[1], m[2] - 1),
                          SubSeq(t, ToAsTail(t, l, m[2]), LastGroupEnd(t, ToAsTail(t, l, m[2])))>> :
                        m \in {UpdatePattern0From(t, l, w)}}) :
            w \in {FirstIn(AttributeStarts(l, SkipWhitespace(l, p)),
                           {x \in 1..Len(l) : UpdatePattern0From(t, l, x) # <<>>})}})
    ELSE <<>>

\* \s+(?:word|...)\s+(?:to|as)\s+(.+?)(?:\.|$) at y with the attribute words
\* of update_patterns[n]: the start of the last group, 0 if none
AttributeTail(t, l, n, y) ==
    IF y >= 1 /\ y <= Len(l) /\ l[y] \in Whitespace
    THEN FirstNonZero([a \in 1..Len(AttributeWords[n - 1]) |->
            IF MatchesAt(l, AttributeWords[n - 1][a], SkipWhitespace(l, y))
            THEN ToAsTail(t, l, SkipWhitespace(l, y) + Len(AttributeWords[n - 1][a]))
            ELSE 0])
    ELSE 0

\* \s+(?:task\s+)?(.+?) at p: the starts of the group in the order they are tried
TaskNameStarts(l, p) ==
    The({(IF MatchesAt(l, W_task, q) THEN StartsAfterWs(l, q + 4) ELSE <<>>)
            \o Descending(q, p + 1) :
         q \in {SkipWhitespace(l, p)}})

\* update_patterns[n], n in 2..5, with the verb ending just before p
UpdatePatternNAt(t, l, n, p) ==
    IF p <= Len(l) /\ l[p] \in Whitespace
    THEN The({IF x = 0 THEN <<>>
              ELSE The({<<SubSeq(t, x, y - 1),
                          SubSeq(t, AttributeTail(t, l, n, y),
                                    LastGroupEnd(t, AttributeTail(t, l, n, y)))>> :
                        y \in {LazyEnd(t, x, 1, tailOk)}}) :
            tailOk \in {{y \in 1..Len(l) : AttributeTail(t, l, n, y) # 0}},
            x \in {FirstIn(TaskNameStarts(l, p),
                       {x \in 1..Len(l) :
                           LazyEnd(t, x, 1, {y \in 1..Len(l) : AttributeTail(t, l, n, y) # 0}) # 0})}})
    ELSE <<>>

\* update_patterns[n] tried at index i of the text: its groups, <<>> if none
UpdatePatternAt(t, l, n, i) ==
    IF \E v \in 1..Len(UpdateVerbs) : MatchesAt(l, UpdateVerbs[v], i)
    THEN IF n = 0 THEN UpdatePattern0At(t, l, i + 6)
         ELSE IF n = 1 THEN UpdatePattern1At(t, l, i + 6)
         ELSE UpdatePatternNAt(t, l, n, i + 6)
    ELSE <<>>

\* match.groups() of re.search(update_patterns[n], t, re.IGNORECASE)
UpdatePatternGroups(t, n) ==
    The({IF first = 0 THEN <<>> ELSE UpdatePatternAt(t, l, n, first) :
            l \in {lower(t)},
            first \in {SmallestOr0({i \in 1..Len(t) : UpdatePatternAt(t, lower(t), n, i) # <<>>})}})

\* last index of the run of characters of S that starts at k (k - 1 if none)
RECURSIVE RunEnd(_, _, _)
RunEnd(t, k, S) == IF k >= 1 /\ k <= Len(t) /\ t[k] \in S THEN RunEnd(t, k + 1, S) ELSE k - 1

AsciiLetters ==
    {LowerChars[i] : i \in 1..Len(LowerChars)} \cup {UpperChars[i] : i \in 1..Len(UpperChars)}

W_on == <<"o","n">>

DateSeparators == {"/", "-"}

OrdinalSuffixes == {<<"s","t">>, <<"n","d">>, <<"r","d">>, <<"t","h">>}

RelativeDates == <<<<"t","o","d","a","y">>, <<"t","o","m","o","r","r","o","w">>>>

W_next == <<"n","e","x","t">>

NextUnits == <<<<"w","e","e","k">>, <<"m","o","n","t","h">>>>

\* \d{lo,hi} at k followed by something that is not a digit when the run is
\* shorter than hi: the number of digits taken, 0 if the run is too short
DigitsTaken(t, k, lo, hi) ==
    LET run == RunEnd(t, k, Digits) - k + 1
    IN  IF run < lo THEN 0 ELSE IF run > hi THEN hi ELSE run

\* date_patterns[0] at index i: the last index of the match, 0 if none
DatePattern0End(t, l, i) ==
    IF MatchesAt(l, W_on, i) /\ i + 2 <= Len(l) /\ l[i + 2] \in Whitespace
    THEN LET k  == SkipWhitespace(l, i + 2)
             d1 == DigitsTaken(t, k, 1, 2)
             s1 == k + d1
             d2 == DigitsTaken(t, s1 + 1, 1, 2)
             s2 == s1 + 1 + d2
             d3 == DigitsTaken(t, s2 + 1, 2, 4)
         IN  IF /\ d1 # 0 /\ s1 <= Len(t) /\ t[s1] \in DateSeparators
                /\ d2 # 0 /\ s2 <= Len(t) /\ t[s2] \in DateSeparators
                /\ d3 # 0
             THEN s2 + d3 ELSE 0
    ELSE 0

\* date_patterns[1] at index i: the last index of the match, 0 if none
DatePattern1End(t, l, i) ==
    IF MatchesAt(l, W_on, i) /\ i + 2 <= Len(l) /\ l[i + 2] \in Whitespace
    THEN LET k == SkipWhitespace(l, i + 2)
             e == RunEnd(t, k, AsciiLetters)
             m == SkipWhitespace(l, e + 1)
             d == DigitsTaken(t, m, 1, 2)
             p == m + d
             c == IF (\E s \in OrdinalSuffixes : MatchesAt(l, s, p))
                     /\ p + 2 <= Len(t) /\ t[p + 2] = ","
                  THEN p + 2 ELSE p
             z == SkipWhitespace(l, c + 1)
         IN  IF /\ e >= k /\ e + 1 <= Len(l) /\ l[e + 1] \in Whitespace
                /\ d # 0 /\ RunEnd(t, m, Digits) = p - 1
                /\ c <= Len(t) /\ t[c] = ","
                /\ RunEnd(t, z, Digits) >= z + 3
             THEN z + 3 ELSE 0
    ELSE 0

\* date_patterns[2] at index i: the last index of the match, 0 if none
DatePattern2End(t, l, i) ==
    FirstNonZero(
        [a \in 1..Len(RelativeDates) |->
            IF MatchesAt(l, RelativeDates[a], i) THEN i + Len(RelativeDates[a]) - 1 ELSE 0]
        \o [u \in 1..Len(NextUnits) |->
            IF /\ MatchesAt(l, W_next, i) /\ i + 4 <= Len(l) /\ l[i + 4] \in Whitespace
               /\ MatchesAt(l, NextUnits[u], SkipWhitespace(l, i + 4))
            THEN SkipWhitespace(l, i + 4) + Len(NextUnits[u]) - 1 ELSE 0])

DatePatternEnd(t, l, n, i) ==
    IF n = 0 THEN DatePattern0End(t, l, i)
    ELSE IF n = 1 THEN DatePattern1End(t, l, i)
    ELSE DatePattern2End(t, l, i)

\* match.group(0) of re.search(date_patterns[n], t, re.IGNORECASE) in a
\* one-element sequence, <<>> if there is no match
DatePatternMatch(t, n) ==
    The({IF first = 0 THEN <<>> ELSE <<SubSeq(t, first, DatePatternEnd(t, l, n, first))>> :
            l \in {lower(t)},
            first \in {SmallestOr0({i \in 1..Len(t) : DatePatternEnd(t, lower(t), n, i) # 0})}})

\* first non-empty entry of a sequence of sequences, <<>> if none
RECURSIVE FirstNonEmpty(_)
FirstNonEmpty(cs) ==
    IF cs = <<>> THEN <<>> ELSE IF Head(cs) # <<>> THEN Head(cs) ELSE FirstNonEmpty(Tail(cs))

W_my_name == <<"m","y"," ","n","a","m","e">>
W_my_email == <<"m","y"," ","e","m","a","i","l">>
W_my_info == <<"m","y"," ","i","n","f","o">>
W_user_info == <<"u","s","e","r"," ","i","n","f","o">>
W_who_am_i == <<"w","h","o"," ","a","m"," ","i">>

\* the if/elif chain on text_lower; the longer phrases of the first two
\* conditions contain 'my name' and 'my email'
InfoType(l) ==
    IF Contains(l, W_my_name) THEN <<<<"n","a","m","e">>>>
    ELSE IF Contains(l, W_my_email) THEN <<<<"e","m","a","i","l">>>>
    ELSE IF Contains(l, W_my_info) \/ Contains(l, W_user_info) \/ Contains(l, W_who_am_i)
         THEN <<<<"g","e","n","e","r","a","l">>>>
    ELSE <<>>

priority_words == <<<<"h","i","g","h">>, <<"m","e","d","i","u","m">>, <<"l","o","w">>>>

\* attr_map.get(attr.lower()), "" when the key is missing
attr_map(a) ==
    IF a \in {<<"t","i","t","l","e">>, <<"n","a","m","e">>} THEN "title"
    ELSE IF a = <<"d","e","s","c","r","i","p","t","i","o","n">> THEN "description"
    ELSE IF a = <<"p","r","i","o","r","i","t","y">> THEN "priority"
    ELSE IF a \in {<<"d","u","e"," ","d","a","t","e">>, <<"d","a","t","e">>} THEN "due_date"
    ELSE IF a = <<"c","a","t","e","g","o","r","y">> THEN "category"
    ELSE ""

Write(slot, value, rule) == [slot |-> slot, value |-> value, rule |-> rule]

\* one write per element of a zero- or one-element sequence of values
WriteIf(slot, v, rule) == IF v = <<>> THEN <<>> ELSE <<Write(slot, v[1], rule)>>

\* the assignments made by the body of the loop over update_patterns for the
\* groups g of the first pattern that matched; title is the task_title slot
UpdateWrites(g, title) ==
    IF g = <<>> THEN <<>>
    ELSE The({(IF attr_map(lower(attr)) # ""
               THEN <<Write(attr_map(lower(attr)), strip(g[Len(g)]), "update_patterns")>>
               ELSE <<>>)
              \o (IF search_term # <<>>
                  THEN <<Write("search_term", search_term, "update_patterns")>> ELSE <<>>) :
            attr \in {strip(g[1])},
            search_term \in {IF Len(g) = 3 THEN strip(g[2])
                             ELSE IF title # <<>> THEN title[1] ELSE <<>>}})

\* the value of a slot after a sequence of writes, in a one-element sequence;
\* <<>> when the key is not in the dict
RECURSIVE SlotValue(_, _)
SlotValue(ws, slot) ==
    IF ws = <<>> THEN <<>>
    ELSE IF ws[Len(ws)].slot = slot THEN <<ws[Len(ws)].value>>
    ELSE SlotValue(SubSeq(ws, 1, Len(ws) - 1), slot)

\* if 'task_title' not in entities and 'search_term' in entities
TitleFromSearchTerm(ws) ==
    IF SlotValue(ws, "task_title") = <<>>
    THEN WriteIf("task_title", SlotValue(ws, "search_term"), "task_title_fallback")
    ELSE <<>>

\* every assignment entities[slot] = value of _rule_based_extract(t), in order
EntityWrites(t) ==
    The({The({upto_search \o TitleFromSearchTerm(upto_search)
                \o WriteIf("priority",
                       FirstNonEmpty([p \in 1..Len(priority_words) |->
                           IF Contains(l, priority_words[p]) THEN <<priority_words[p]>> ELSE <<>>]),
                       "priority_words")
                \o WriteIf("due_date",
                       FirstNonEmpty([n \in 1..3 |-> DatePatternMatch(t, n - 1)]),
                       "date_patterns") :
            upto_search \in {WriteIf("info_type", InfoType(l), "info_type")
                \o WriteIf("task_title", title, "add_patterns")
                \o UpdateWrites(FirstNonEmpty([n \in 1..6 |-> UpdatePatternGroups(t, n - 1)]), title)
                \o WriteIf("search_term", ExtractSearchTerm(t), "search_patterns")}}) :
         l \in {lower(t)}, title \in {ExtractTaskTitle(t)}})

Slots == {"info_type", "task_title", "title", "description", "priority", "due_date",
          "category", "search_term"}

\* the dict _rule_based_extract returns
Entities(ws) == [slot \in {s \in Slots : SlotValue(ws, s) # <<>>} |-> SlotValue(ws, slot)[1]]

(***************************************************************************)
(* Inputs of the extractor: up to MaxExtractWords words joined by blanks.  *)
(***************************************************************************)
MaxExtractWords == 4

ExtractVocabulary ==
    << <<"c","h","a","n","g","e">>,
       <<"p","r","i","o","r","i","t","y">>,
       <<"t","o">>,
       <<"h","i","g","h","e","s","t">>,
       <<"l","o","w">>,
       <<"f","i","n","d">> >>

RECURSIVE JoinWords(_, _)
JoinWords(voc, ws) ==
    IF ws = <<>> THEN <<>>
    ELSE IF Len(ws) = 1 THEN voc[ws[1]]
    ELSE voc[ws[1]] \o <<" ">> \o JoinWords(voc, Tail(ws))

ExtractTexts ==
    {JoinWords(ExtractVocabulary, ws) :
        ws \in UNION {[1..n -> 1..Len(ExtractVocabulary)] : n \in 0..MaxExtractWords}}

RuleBasedExtract ==
    /\ ~extracted.called
    /\ extracted' = The({[called |-> TRUE, writes |-> ws, entities |-> Entities(ws)] :
                            ws \in {EntityWrites(text)}})
    /\ UNCHANGED <<text, classification, cohere, statements, outcomes, aggregate, taskVars>>
    /\ UNCHANGED <<processing, clarification, limiter>>
    /\ UNCHANGED confVars
    /\ UNCHANGED convVars

NextExtract == RuleBasedExtract

InitExtract ==
    /\ text \in ExtractTexts
    /\ classification = NoResult
    /\ cohere = "none"
    /\ statements = NotDecomposed
    /\ outcomes = <<>>
    /\ aggregate = NotProcessed
    /\ InitTasks
    /\ InitAux
    /\ InitStore
    /\ InitConversations

SpecExtract == InitExtract /\ [][NextExtract]_vars

\* the first assignment to a slot in a sequence of writes
FirstWrite(ws, slot) == ws[CHOOSE i \in DOMAIN ws : ws[i].slot = slot /\ \A j \in 1..(i - 1) : ws[j].slot # slot]

(***************************************************************************)
(* C23: in rule-based extraction every slot of the returned dict holds the *)
(* value that the first rule to set the slot gave it: no later rule has    *)
(* replaced it.                                                            *)
(***************************************************************************)
C23_FirstRuleWins ==
    extracted.called =>
        \A slot \in DOMAIN extracted.entities :
            extracted.entities[slot] = FirstWrite(extracted.writes, slot).value

(***************************************************************************)
(* The strategies of process_multi_intent_command: _process_sequentially   *)
(* and _process_hierarchically.  A statement of the command is given by    *)
(* what the collaborators do with it: the intent classify_intent returns   *)
(* and how it goes on,                                                     *)
(*   "classify_raises"  classify_intent raises                             *)
(*   "invalid"          validate_command answers is_valid False            *)
(*   "success"          process_command returns a result with success      *)
(*   "failure"          process_command returns a result without success   *)
(*   "raises"           process_command raises                             *)
(* The run of a strategy is the list of events ("classify", "validate" and *)
(* "execute", each with the index of the statement), the list of results   *)
(* and whether an exception left the method.                               *)
(***************************************************************************)
MaxCompound == 3

StatementFates == {"classify_raises", "invalid", "success", "failure", "raises"}

CompoundStatements == [intent : Intents, fate : StatementFates]

Event(kind, i) == [kind |-> kind, statement |-> i]

Result(i, success, intent) == [statement |-> i, success |-> success, intent |-> intent]

Run(strategy, raised, events, results) ==
    [strategy |-> strategy, raised |-> raised, events |-> events, results |-> results]

\* the body of the try block for statement i once it is classified: the
\* events, the result appended (none when process_command raises)
ValidateAndProcess(cs, i) ==
    IF cs[i].fate = "invalid"
    THEN [events |-> <<Event("validate", i)>>,
          results |-> <<Result(i, FALSE, cs[i].intent)>>, raised |-> FALSE]
    ELSE IF cs[i].fate = "raises"
    THEN [events |-> <<Event("validate", i), Event("execute", i)>>,
          results |-> <<>>, raised |-> TRUE]
    ELSE [events |-> <<Event("validate", i), Event("execute", i)>>,
          results |-> <<Result(i, cs[i].fate = "success", cs[i].intent)>>, raised |-> FALSE]

\* _process_sequentially from statement i on.  The except handler builds
\* ProcessedCommandResult(intent=None), which the model type (intent:
\* IntentType, required) refuses: the ValidationError leaves the method
RECURSIVE process_sequentially(_, _, _, _)
process_sequentially(cs, i, events, results) ==
    IF i > Len(cs) THEN Run("SEQUENTIAL", FALSE, events, results)
    ELSE IF cs[i].fate = "classify_raises"
    THEN Run("SEQUENTIAL", TRUE, events \o <<Event("classify", i)>>, results)
    ELSE The({IF step.raised
              THEN Run("SEQUENTIAL", TRUE, events \o <<Event("classify", i)>> \o step.events, results)
              ELSE process_sequentially(cs, i + 1,
                       events \o <<Event("classify", i)>> \o step.events,
                       results \o step.results) :
            step \in {ValidateAndProcess(cs, i)}})

\* self.intent_priority_map.get(intent, 0) for the members IntentType has
\* (the dict literal also names IntentType.SORT_TASKS: 4 and
\* IntentType.CANCELLED: 9, which the enum does not define)
intent_priority_map(intent) ==
    CASE intent = "UNKNOWN" -> 0
      [] intent = "LIST_TASKS" -> 1
      [] intent = "SEARCH_TASKS" -> 2
      [] intent = "FILTER_TASKS" -> 3
      [] intent = "CREATE_TASK" -> 5
      [] intent = "UPDATE_TASK" -> 6
      [] intent = "DELETE_TASK" -> 7
      [] intent = "GET_USER_INFO" -> 8
      [] OTHER -> 0

\* list.sort(key=priority, reverse=True) on the statements in S: a stable
\* sort, so equal keys keep their original order
RECURSIVE SortByPriority(_, _)
SortByPriority(cs, S) ==
    IF S = {} THEN <<>>
    ELSE The({<<first>> \o SortByPriority(cs, S \ {first}) :
            first \in {CHOOSE i \in S : \A j \in S \ {i} :
                \/ intent_priority_map(cs[i].intent) > intent_priority_map(cs[j].intent)
                \/ (intent_priority_map(cs[i].intent) = intent_priority_map(cs[j].intent) /\ i < j)}})

\* the second loop of _process_hierarchically over the sorted commands from
\* position k on; its handler keeps the command's intent, so it returns a result
RECURSIVE ProcessSorted(_, _, _, _, _)
ProcessSorted(cs, order, k, events, results) ==
    IF k > Len(order) THEN Run("HIERARCHICAL", FALSE, events, results)
    ELSE The({ProcessSorted(cs, order, k + 1, events \o step.events,
                  results \o (IF step.raised
                              THEN <<Result(order[k], FALSE, cs[order[k]].intent)>>
                              ELSE step.results)) :
            step \in {ValidateAndProcess(cs, order[k])}})

\* _process_hierarchically: classify all (outside any try), sort, process
process_hierarchically(cs) ==
    IF \E i \in 1..Len(cs) : cs[i].fate = "classify_raises"
    THEN Run("HIERARCHICAL", TRUE,
             [i \in 1..(CHOOSE j \in 1..Len(cs) : cs[j].fate = "classify_raises"
                            /\ \A h \in 1..(j - 1) : cs[h].fate # "classify_raises")
                |-> Event("classify", i)], <<>>)
    ELSE ProcessSorted(cs, SortByPriority(cs, 1..Len(cs)), 1,
                       [i \in 1..Len(cs) |-> Event("classify", i)], <<>>)

ProcessSequentially ==
    /\ processing = NotStarted
    /\ processing' = process_sequentially(outcomes, 1, <<>>, <<>>)
    /\ UNCHANGED <<text, classification, cohere, statements, outcomes, aggregate, taskVars>>
    /\ UNCHANGED <<extracted, clarification, limiter>>
    /\ UNCHANGED confVars
    /\ UNCHANGED convVars

ProcessHierarchically ==
    /\ processing = NotStarted
    /\ processing' = process_hierarchically(outcomes)
    /\ UNCHANGED <<text, classification, cohere, statements, outcomes, aggregate, taskVars>>
    /\ UNCHANGED <<extracted, clarification, limiter>>
    /\ UNCHANGED confVars
    /\ UNCHANGED convVars

NextStrategies == ProcessSequentially \/ ProcessHierarchically

InitStrategies ==
    /\ text = <<>>
    /\ classification = NoResult
    /\ cohere = "none"
    /\ statements = NotDecomposed
    /\ outcomes \in UNION {[1..n -> CompoundStatements] : n \in 2..MaxCompound}
    /\ aggregate = NotProcessed
    /\ InitTasks
    /\ InitAux
    /\ InitStore
    /\ InitConversations

SpecStrategies == InitStrategies /\ [][NextStrategies]_vars

\* the statements of the events of one kind, in the order of the events
RECURSIVE StatementsOf(_, _)
StatementsOf(events, kind) ==
    IF events = <<>> THEN <<>>
    ELSE (IF Head(events).kind = kind THEN <<Head(events).statement>> ELSE <<>>)
            \o StatementsOf(Tail(events), kind)

(***************************************************************************)
(* C24: under the sequential strategy every statement is handled, in the   *)
(* original order, whatever the statements before it did (failed or        *)
(* raised), and the method returns a result list with exactly one entry    *)
(* per statement in the same order.                                        *)
(***************************************************************************)
C24_SequentialHandlesAll ==
    processing.strategy = "SEQUENTIAL" =>
        /\ StatementsOf(processing.events, "classify") = [i \in 1..Len(outcomes) |-> i]
        /\ ~processing.raised
        /\ [k \in 1..Len(processing.results) |-> processing.results[k].statement]
              = [i \in 1..Len(outcomes) |-> i]

InformationalIntents == {"LIST_TASKS", "SEARCH_TASKS", "FILTER_TASKS"}

\* position of the event of a kind for statement i in a list of events, 0 if none
EventIndex(events, kind, i) ==
    SmallestOr0({k \in DOMAIN events : events[k] = Event(kind, i)})

(***************************************************************************)
(* C25: under the hierarchical strategy every statement is classified      *)
(* before any statement is executed, and a DELETE_TASK statement is        *)
(* executed after every informational statement (LIST_TASKS, SEARCH_TASKS, *)
(* FILTER_TASKS) that is executed and before every COMPLETE_TASK statement *)
(* that is executed.                                                       *)
(***************************************************************************)
C25_HierarchicalOrder ==
    processing.strategy = "HIERARCHICAL" =>
        \A i \in 1..Len(outcomes), j \in 1..Len(outcomes) :
            /\ EventIndex(processing.events, "execute", i) # 0
                  => /\ EventIndex(processing.events, "classify", j) # 0
                     /\ EventIndex(processing.events, "classify", j)
                           < EventIndex(processing.events, "execute", i)
            /\ ( /\ EventIndex(processing.events, "execute", i) # 0
                 /\ EventIndex(processing.events, "execute", j) # 0
                 /\ outcomes[i].intent = "DELETE_TASK" )
                  => /\ outcomes[j].intent \in InformationalIntents
                        => EventIndex(processing.events, "execute", j)
                              < EventIndex(processing.events, "execute", i)
                     /\ outcomes[j].intent = "COMPLETE_TASK"
                        => EventIndex(processing.events, "execute", i)
                              < EventIndex(processing.events, "execute", j)

(***************************************************************************)
(* Clarification generator: services/clarification_generator.py.  A        *)
(* candidate match is the title its dict holds, or "None" when the dict    *)
(* has no 'title' key.                                                     *)
(***************************************************************************)
MaxCandidates == 4

MaxClarifyWords == 4

CandidateTitles == {"t1", "None"}

PossibleMatches == UNION {[1..n -> CandidateTitles] : n \in 0..MaxCandidates}

NoClarification == [type |-> "None", suggestions |-> <<>>]

\* candidates[:3]
FirstThree(seq) == SubSeq(seq, 1, IF Len(seq) < 3 THEN Len(seq) ELSE 3)

\* candidate.get('title', 'unnamed task')
CandidateTitle(candidate) == IF candidate = "None" THEN "unnamed task" ELSE candidate

\* _generate_suggestions
generate_suggestions(intent, clarification_type, candidates) ==
    IF clarification_type = "AMBIGUOUS_TASK_REFERENCE" /\ candidates # <<>>
    THEN [i \in 1..Len(FirstThree(candidates)) |-> <<"Choose", CandidateTitle(candidates[i])>>]
    ELSE IF clarification_type = "MISSING_ENTITY"
    THEN IF intent = "CREATE_TASK"
         THEN <<<<"Add task: [task title]">>, <<"Create a task to [describe task]">>,
                <<"Make a new task called [title]">>>>
         ELSE <<>>
    ELSE IF clarification_type = "UNCLEAR_INTENT"
    THEN <<<<"Add a task: [title]">>, <<"Complete task: [title]">>, <<"Delete task: [title]">>,
           <<"Show my tasks">>, <<"What can I do?">>>>
    ELSE <<>>

\* generate_clarification_request: the type and the suggestions of the request
generate_clarification_request(intent, clarification_type, candidates) ==
    [type |-> clarification_type,
     suggestions |-> generate_suggestions(intent, clarification_type, candidates)]

\* not command.entities.get('title')
NoTitle(e) == ~("title" \in DOMAIN e /\ e["title"] # <<>>)

\* needs_clarification with the UNKNOWN test ahead of the candidates test
needs_clarification_IntentFirst(intent, e, possible_matches, multiple_intents) ==
    IF intent = "UNKNOWN"
    THEN generate_clarification_request(intent, "UNCLEAR_INTENT", <<>>)
    ELSE IF Len(possible_matches) > 1
    THEN generate_clarification_request(intent, "AMBIGUOUS_TASK_REFERENCE", possible_matches)
    ELSE IF intent \in {"CREATE_TASK", "UPDATE_TASK"} /\ NoTitle(e)
    THEN generate_clarification_request(intent, "MISSING_ENTITY", <<>>)
    ELSE IF multiple_intents
    THEN generate_clarification_request(intent, "MULTIPLE_POSSIBLE_ACTIONS", <<>>)
    ELSE NoClarification

\* needs_clarification(command, possible_matches) for a command with the given
\* intent and entities e; possible_matches None is the empty list here (both
\* are falsy); multiple_intents is getattr(command, '_multiple_intents', False)
needs_clarification(intent, e, possible_matches, multiple_intents) ==
    IF Len(possible_matches) > 1
    THEN generate_clarification_request(intent, "AMBIGUOUS_TASK_REFERENCE", possible_matches)
    ELSE IF intent = "UNKNOWN"
    THEN generate_clarification_request(intent, "UNCLEAR_INTENT", <<>>)
    ELSE IF intent \in {"CREATE_TASK", "UPDATE_TASK"} /\ NoTitle(e)
    THEN generate_clarification_request(intent, "MISSING_ENTITY", <<>>)
    ELSE IF multiple_intents
    THEN generate_clarification_request(intent, "MULTIPLE_POSSIBLE_ACTIONS", <<>>)
    ELSE NoClarification

ClarifyVocabulary ==
    << <<"a","d","d">>,
       <<"m","i","l","k">>,
       <<"c","h","a","n","g","e">>,
       <<"t","i","t","l","e">>,
       <<"t","o">> >>

ClarifyTexts ==
    {JoinWords(ClarifyVocabulary, ws) :
        ws \in UNION {[1..n -> 1..Len(ClarifyVocabulary)] : n \in 0..MaxClarifyWords}}

\* needs_clarification on a command whose entities the extractor brought
NeedsClarification ==
    \E intent \in Intents, possible_matches \in PossibleMatches, multiple_intents \in BOOLEAN :
        /\ extracted.called
        /\ ~clarification.called
        /\ clarification' =
              [called |-> TRUE, intent |-> intent, possible_matches |-> possible_matches,
               multiple_intents |-> multiple_intents,
               request |-> needs_clarification(intent, extracted.entities, possible_matches,
                                               multiple_intents)]
        /\ UNCHANGED <<text, classification, cohere, statements, outcomes, aggregate, taskVars>>
        /\ UNCHANGED <<extracted, processing, limiter>>
        /\ UNCHANGED confVars
        /\ UNCHANGED convVars

NextClarify == RuleBasedExtract \/ NeedsClarification

InitClarify ==
    /\ text \in ClarifyTexts
    /\ classification = NoResult
    /\ cohere = "none"
    /\ statements = NotDecomposed
    /\ outcomes = <<>>
    /\ aggregate = NotProcessed
    /\ InitTasks
    /\ InitAux
    /\ InitStore
    /\ InitConversations

SpecClarify == InitClarify /\ [][NextClarify]_vars

(***************************************************************************)
(* C26: needs_clarification returns the request of the first condition     *)
(* that holds, in this order.  More than one candidate match gives         *)
(* AMBIGUOUS_TASK_REFERENCE whose suggestions are the first (at most 3)    *)
(* candidate titles, whatever the intent and the entities are; otherwise   *)
(* an UNKNOWN intent gives UNCLEAR_INTENT; and when none of the conditions *)
(* holds (at most one candidate, a known intent, no missing title, no      *)
(* multiple-intents mark) the result is none.                              *)
(***************************************************************************)
C26_FirstConditionFires ==
    clarification.called =>
        /\ Len(clarification.possible_matches) > 1 =>
              /\ clarification.request.type = "AMBIGUOUS_TASK_REFERENCE"
              /\ Len(clarification.request.suggestions) <= 3
              /\ clarification.request.suggestions =
                    [i \in 1..(IF Len(clarification.possible_matches) < 3
                               THEN Len(clarification.possible_matches) ELSE 3) |->
                        <<"Choose", CandidateTitle(clarification.possible_matches[i])>>]
        /\ (Len(clarification.possible_matches) <= 1 /\ clarification.intent = "UNKNOWN") =>
              clarification.request.type = "UNCLEAR_INTENT"
        /\ ( /\ Len(clarification.possible_matches) <= 1
             /\ clarification.intent # "UNKNOWN"
             /\ ~(clarification.intent \in {"CREATE_TASK", "UPDATE_TASK"} /\ NoTitle(extracted.entities))
             /\ ~clarification.multiple_intents ) =>
              clarification.request = NoClarification

C26_Witness ==
    /\ clarification.called
    /\ Len(clarification.possible_matches) = MaxCandidates
    /\ clarification.intent = "UNKNOWN"
    /\ clarification.request.type = "AMBIGUOUS_TASK_REFERENCE"
    /\ Len(clarification.request.suggestions) = 3

\* the entities hold a task title or a reference to a task
HasTitleOrReference(e) ==
    \E slot \in {"title", "task_title", "search_term"} : slot \in DOMAIN e /\ e[slot] # <<>>

(***************************************************************************)
(* C27: with at most one candidate match and a known intent,               *)
(* needs_clarification returns MISSING_ENTITY exactly when the intent is   *)
(* one that needs a task title (CREATE_TASK, UPDATE_TASK) and the          *)
(* extracted entities hold no title and no task reference; so a            *)
(* CREATE_TASK command for which the extractor found a task title gets no  *)
(* clarification request.                                                  *)
(***************************************************************************)
C27_MissingEntityExactly ==
    (clarification.called /\ Len(clarification.possible_matches) <= 1
        /\ clarification.intent # "UNKNOWN") =>
        /\ clarification.request.type = "MISSING_ENTITY"
              <=> /\ clarification.intent \in {"CREATE_TASK", "UPDATE_TASK"}
                  /\ ~HasTitleOrReference(extracted.entities)
        /\ ( /\ clarification.intent = "CREATE_TASK"
             /\ "task_title" \in DOMAIN extracted.entities
             /\ extracted.entities["task_title"] # <<>>
             /\ ~clarification.multiple_intents )
              => clarification.request = NoClarification

(***************************************************************************)
(* Conversations about one pending destructive action: the request         *)
(* (start_confirmation_flow) and the turns that answer it, through         *)
(* process_chat_message and through handle_confirmation_response, on a     *)
(* session that exists.  Up to MaxTurnMessages messages are stored.        *)
(***************************************************************************)
MaxTurnMessages == 7

TurnCall(op, conversation_id, outcome) ==
    \E r \in {outcome} :
        /\ r.issued <= MaxConversations
        /\ StoredMessages(r.conversations, DOMAIN r.conversations) <= MaxTurnMessages
        /\ conversations' = r.conversations
        /\ issued' = r.issued
        /\ reply' = [op |-> op, arg |-> conversation_id,
                     conversation_id |-> r.reply.conversation_id,
                     response |-> r.reply.response, intent |-> r.reply.intent]
        /\ executed' = r.executed
        /\ UNCHANGED <<now, ticks, threads>>
        /\ UNCHANGED storeVars
        /\ UNCHANGED textVars

RequestConfirmation ==
    \E id \in SessionIds, a \in ActionData :
        TurnCall("start_confirmation_flow", id,
                 start_confirmation_flow(conversations, issued, id, a))

ChatMessageTurn ==
    \E id \in SessionIds, u \in Users, m \in Utterances, env \in Environments :
        TurnCall("process_chat_message", id,
                 process_chat_message(conversations, issued, id, u, m, env))

ConfirmationResponseTurn ==
    \E id \in SessionIds, u \in Users, m \in Utterances, env \in Environments :
        TurnCall("handle_confirmation_response", id,
                 handle_confirmation_response(conversations, issued, id, u, m, env))

NextTurns == RequestConfirmation \/ ChatMessageTurn \/ ConfirmationResponseTurn

InitTurns == InitThreads

SpecTurns == InitTurns /\ [][NextTurns]_vars

\* the assistant messages that ask for, cancel and carry out a pending action
RequestMessages == {ConfirmationMessage(a.action) : a \in ActionData}

CancelledMessages == {"Action cancelled.", "Action cancelled as requested."}

ExecutedMessages == {ConfirmedMessage(a.action) : a \in ActionData}

AssistantSaid(ms, k, contents) == ms[k].role = "assistant" /\ ms[k].content \in contents

(***************************************************************************)
(* C28: once the user has declined a pending destructive action, no later  *)
(* message of the conversation gets it carried out unless the action was   *)
(* requested again in between.  The history of a session never holds the   *)
(* execution of the pending action (the confirmed branch, "Confirmed. ...  *)
(* has been executed.") after a cancellation without a new request for     *)
(* confirmation between the two.                                           *)
(***************************************************************************)
C28_DeclinedIsNotExecuted ==
    \A id \in DOMAIN conversations :
        \A k \in DOMAIN conversations[id].messages :
            AssistantSaid(conversations[id].messages, k, ExecutedMessages) =>
                ~\E j \in 1..(k - 1) :
                    /\ AssistantSaid(conversations[id].messages, j, CancelledMessages)
                    /\ \A i \in (j + 1)..(k - 1) :
                          ~AssistantSaid(conversations[id].messages, i, RequestMessages)

(***************************************************************************)
(* C29: process_confirmed_action called for a request whose expires_at has *)
(* passed returns no result, whether or not the request was confirmed      *)
(* while it was valid: nothing is processed and the record is no longer in *)
(* the store afterwards.                                                   *)
(***************************************************************************)
C29_ExpiredIsNotProcessed ==
    [][(/\ last'.op = "process"
        /\ last'.id \in ConfIds
        /\ requests[last'.id].exists
        /\ is_expired(requests[last'.id]))
       => /\ ~last'.ok
          /\ processed' = processed
          /\ last'.id \notin pending_confirmations']_vars

\* a request confirmed in time was handed to process_confirmed_action after
\* its expiry, nothing was processed and the record is gone
C29_Witness ==
    /\ last.op = "process"
    /\ ~last.ok
    /\ last.id \in ConfIds
    /\ requests[last.id].exists
    /\ requests[last.id].is_confirmed
    /\ is_expired(requests[last.id])
    /\ processed[last.id] = 0
    /\ last.id \notin pending_confirmations


(***************************************************************************)
(* RateLimiterService.check_user_rate_limit (services/rate_limiter.py).    *)
(* The chat endpoint is a synchronous function, so the framework runs each *)
(* request on a worker thread and the calls of check_user_rate_limit on    *)
(* the module-level rate_limiter_service run concurrently.  The method     *)
(* takes no lock, so every read and write of the shared dictionary is a    *)
(* step of its own and the steps of two calls interleave freely.           *)
(***************************************************************************)

\* _get_max_count: the number of calls one window admits
_get_max_count(operation) ==
    CASE operation = "chat_message" -> 50
      [] operation = "bulk_delete" -> 10
      [] operation = "task_creation" -> 100
      [] operation = "account_action" -> 5
      [] OTHER -> 50

\* _get_reset_interval: the length of a window in seconds
_get_reset_interval(operation) ==
    CASE operation = "chat_message" -> 3600
      [] operation = "bulk_delete" -> 300
      [] operation = "task_creation" -> 3600
      [] operation = "account_action" -> 3600
      [] OTHER -> 3600

\* how many times the clock advances in one behaviour
MaxRateTicks == 1

\* how many calls of check_user_rate_limit begin in one behaviour
MaxRateCalls == 4

\* the operations whose key the calls of one behaviour share
RateOperations == {"chat_message", "account_action"}

\* a worker thread that is not inside check_user_rate_limit
NoCall == [pc |-> "idle", current_time |-> 0, user_limit |-> 0, seen |-> 0,
           result |-> "none", wrote |-> FALSE]

\* the calls made one after the other at time 0 before the behaviour begins
EarlierCalls(operation) == {0, _get_max_count(operation) - 1, _get_max_count(operation)}

\* user_limits after n such calls: no key before the first, the counter at n after it
AfterCalls(operation, n) ==
    [operation |-> operation, clock |-> 0, ticks |-> 0, entered |-> 0,
     user_limits |-> IF n = 0 THEN 0 ELSE 1,
     records |-> IF n = 0 THEN <<>>
                 ELSE <<[count |-> n, reset_time |-> _get_reset_interval(operation)]>>,
     calls |-> [t \in Threads |-> NoCall],
     granted |-> n]

\* the clock advances by half a window or by a whole one
RateSteps(operation) == {_get_reset_interval(operation) \div 2, _get_reset_interval(operation)}

\* the record user_limits[user_key] refers to, and the one a call holds
LimitOf(t) == limiter.records[limiter.calls[t].user_limit]

\* one call moves on: its local variables change, the shared state as given
RateMove(t, call, user_limits, records, granted) ==
    limiter' = [limiter EXCEPT !.calls = [@ EXCEPT ![t] = call],
                               !.user_limits = user_limits,
                               !.records = records,
                               !.granted = granted]

\* a step that changes only the call's own variables
RateLocal(t, call) == RateMove(t, call, limiter.user_limits, limiter.records, limiter.granted)

\* line 63: the call begins and reads the clock
RateEnter(t) ==
    /\ limiter.operation \in RateOperations
    /\ limiter.calls[t].pc = "idle"
    /\ limiter.entered < MaxRateCalls
    /\ limiter' = [limiter EXCEPT !.calls = [@ EXCEPT ![t] = [NoCall EXCEPT !.pc = "lookup",
                                                                         !.current_time = limiter.clock]],
                                  !.entered = @ + 1]
    /\ UNCHANGED <<extracted, processing, clarification>>

\* line 66: is the key in user_limits
RateLookup(t) ==
    /\ limiter.operation \in RateOperations
    /\ limiter.calls[t].pc = "lookup"
    /\ RateLocal(t, [limiter.calls[t] EXCEPT !.pc = IF limiter.user_limits = 0 THEN "create" ELSE "fetch"])
    /\ UNCHANGED <<extracted, processing, clarification>>

\* lines 67-70: a new record is stored under the key
RateCreate(t) ==
    /\ limiter.operation \in RateOperations
    /\ limiter.calls[t].pc = "create"
    /\ RateMove(t, [limiter.calls[t] EXCEPT !.pc = "fetch"],
                Len(limiter.records) + 1,
                Append(limiter.records,
                       [count |-> 0,
                        reset_time |-> limiter.calls[t].current_time + _get_reset_interval(limiter.operation)]),
                limiter.granted)
    /\ UNCHANGED <<extracted, processing, clarification>>

\* line 72: user_limit = self.user_limits[user_key]
RateFetch(t) ==
    /\ limiter.operation \in RateOperations
    /\ limiter.calls[t].pc = "fetch"
    /\ RateLocal(t, [limiter.calls[t] EXCEPT !.pc = "expiry", !.user_limit = limiter.user_limits])
    /\ UNCHANGED <<extracted, processing, clarification>>

\* line 75: has the window passed
RateExpiry(t) ==
    /\ limiter.operation \in RateOperations
    /\ limiter.calls[t].pc = "expiry"
    /\ RateLocal(t, [limiter.calls[t] EXCEPT
                        !.pc = IF limiter.calls[t].current_time >= LimitOf(t).reset_time
                               THEN "reset_count" ELSE "read_count"])
    /\ UNCHANGED <<extracted, processing, clarification>>

\* line 76: user_limit['count'] = 0, a new window begins
RateResetCount(t) ==
    /\ limiter.operation \in RateOperations
    /\ limiter.calls[t].pc = "reset_count"
    /\ RateMove(t, [limiter.calls[t] EXCEPT !.pc = "reset_time", !.wrote = TRUE],
                limiter.user_limits,
                [limiter.records EXCEPT ![limiter.calls[t].user_limit].count = 0],
                0)
    /\ UNCHANGED <<extracted, processing, clarification>>

\* line 77: user_limit['reset_time'] = current_time + interval
RateResetTime(t) ==
    /\ limiter.operation \in RateOperations
    /\ limiter.calls[t].pc = "reset_time"
    /\ RateMove(t, [limiter.calls[t] EXCEPT !.pc = "read_count"],
                limiter.user_limits,
                [limiter.records EXCEPT ![limiter.calls[t].user_limit].reset_time =
                     limiter.calls[t].current_time + _get_reset_interval(limiter.operation)],
                limiter.granted)
    /\ UNCHANGED <<extracted, processing, clarification>>

\* line 80, left operand: user_limit['count'] is read before _get_max_count is called
RateReadCount(t) ==
    /\ limiter.operation \in RateOperations
    /\ limiter.calls[t].pc = "read_count"
    /\ RateLocal(t, [limiter.calls[t] EXCEPT !.pc = "compare", !.seen = LimitOf(t).count])
    /\ UNCHANGED <<extracted, processing, clarification>>

\* lines 80-82: the comparison, and return False when the limit is reached
RateCompare(t) ==
    /\ limiter.operation \in RateOperations
    /\ limiter.calls[t].pc = "compare"
    /\ RateLocal(t, IF limiter.calls[t].seen >= _get_max_count(limiter.operation)
                    THEN [NoCall EXCEPT !.result = "False", !.wrote = limiter.calls[t].wrote]
                    ELSE [limiter.calls[t] EXCEPT !.pc = "load"])
    /\ UNCHANGED <<extracted, processing, clarification>>

\* line 84, first half of count += 1: the count is read
RateLoad(t) ==
    /\ limiter.operation \in RateOperations
    /\ limiter.calls[t].pc = "load"
    /\ RateLocal(t, [limiter.calls[t] EXCEPT !.pc = "store", !.seen = LimitOf(t).count])
    /\ UNCHANGED <<extracted, processing, clarification>>

\* lines 84-85, second half of count += 1: the sum is stored, return True
RateStore(t) ==
    /\ limiter.operation \in RateOperations
    /\ limiter.calls[t].pc = "store"
    /\ RateMove(t, [NoCall EXCEPT !.result = "True", !.wrote = TRUE],
                limiter.user_limits,
                [limiter.records EXCEPT ![limiter.calls[t].user_limit].count = limiter.calls[t].seen + 1],
                limiter.granted + 1)
    /\ UNCHANGED <<extracted, processing, clarification>>

\* time.time() moves on between the steps of the calls
RateTick ==
    /\ limiter.operation \in RateOperations
    /\ limiter.ticks < MaxRateTicks
    /\ \E step \in RateSteps(limiter.operation) :
        limiter' = [limiter EXCEPT !.clock = @ + step, !.ticks = @ + 1]
    /\ UNCHANGED <<extracted, processing, clarification>>

\* check_user_rate_limit, one step of one call
CheckUserRateLimit(t) ==
    \/ RateEnter(t) \/ RateLookup(t) \/ RateCreate(t) \/ RateFetch(t)
    \/ RateExpiry(t) \/ RateResetCount(t) \/ RateResetTime(t)
    \/ RateReadCount(t) \/ RateCompare(t) \/ RateLoad(t) \/ RateStore(t)

NextRate ==
    \/ /\ \E t \in Threads : CheckUserRateLimit(t)
       /\ UNCHANGED <<text, classification, cohere, statements, outcomes, aggregate, taskVars, confVars, convVars, storeVars>>
    \/ /\ RateTick
       /\ UNCHANGED <<text, classification, cohere, statements, outcomes, aggregate, taskVars, confVars, convVars, storeVars>>

InitRate ==
    /\ text = <<>>
    /\ classification = NoResult
    /\ cohere = "none"
    /\ statements = NotDecomposed
    /\ outcomes = <<>>
    /\ aggregate = NotProcessed
    /\ InitTasks
    /\ extracted = NotExtracted
    /\ processing = NotStarted
    /\ clarification = NotAsked
    /\ \E operation \in RateOperations : \E n \in EarlierCalls(operation) :
        limiter = AfterCalls(operation, n)
    /\ InitStore
    /\ InitConversations

SpecRate == InitRate /\ [][NextRate]_vars

\* the call of thread t returns False in this step
Denied(t) == limiter.calls[t].pc = "compare" /\ limiter'.calls[t].result = "False"

\* the count of the record under the key is set back to zero in this step
CounterReset(t) == limiter.calls[t].pc = "reset_count" /\ limiter'.calls[t].pc = "reset_time"

(***************************************************************************)
(* C30: for the key the calls share, check_user_rate_limit returns True at *)
(* most max_count times within one window (between two resets of the       *)
(* counter), also when calls for the key run concurrently; a call that     *)
(* returns False has not written the counter; and the counter is set back  *)
(* to zero only by a call whose current_time is at or after the reset_time *)
(* the record holds at that moment.                                        *)
(***************************************************************************)
C30_AtMostMaxCountPerWindow ==
    [][limiter.operation \in RateOperations =>
         /\ limiter'.granted <= _get_max_count(limiter.operation)
         /\ \A t \in Threads :
              /\ Denied(t) => ~limiter.calls[t].wrote
              /\ CounterReset(t) => limiter.calls[t].current_time >= LimitOf(t).reset_time]_vars

====
